---- MODULE Spec2Model ----
(***************************************************************************)
(* State-machine model of the MiniLinkedIn backend: the Express routers    *)
(* (connections, posts, jobs, messages, notifications, users), the         *)
(* Socket.IO registry, and the Mongoose collections (User, Connection,     *)
(* Post, Job, Message, Notification).                                      *)
(*                                                                         *)
(* SpecConn, SpecReceived, SpecPost, SpecJob, SpecOwner, SpecMsg, SpecFail,*)
(* SpecSock, SpecNotif, SpecApps, SpecStatus, SpecRead, SpecFollow and     *)
(* SpecProfile run one whole request handler per step.  SpecConcConn,      *)
(* SpecConcAccept, SpecConcFollow, SpecConcPost and SpecConcJob interleave *)
(* handlers at their await points.  SpecFeed reads a store of documents    *)
(* the schemas admit.  SpecConv applies the two derivations of the         *)
(* conversation id to accounts with arbitrary id strings.                  *)
(***************************************************************************)
EXTENDS Integers, Sequences, FiniteSets

\* ------------------------------------------------------------------------
\* Bounds
\* ------------------------------------------------------------------------
MaxNotifs == 4
MaxConns == 2
MaxPosts == 1
MaxFeedPosts == 2
MaxPage == 2
MaxSockets == 3
MaxMessages == 2
MaxClock == 3
MaxJobs == 1
MaxVersion == 3
MaxHooked == 2
IdLen == 2
NumProcs == 2

\* ------------------------------------------------------------------------
\* Accounts.  GhostId is a well-formed id that no User document carries,
\* NoId is an absent request field.
\* ------------------------------------------------------------------------
Users == {"u1", "u2", "u3"}
GhostId == "u9"
NoId == ""
None == "none"

\* The email, password hash and headline an account registered with
Profile(u) == [email |-> u, passwordHash |-> "hash", headline |-> ""]

VARIABLES
  admins,         \* User.isAdmin: the accounts whose flag is true
  connections,    \* User.connections: account -> array of account ids
  following,      \* User.following: account -> array of account ids
  followers,      \* User.followers: account -> array of account ids
  profiles,       \* account -> email, passwordHash and headline
  conns,          \* Connection collection: array of documents, _id = index
  posts,          \* Post collection: array of documents or Deleted
  jobs,           \* Job collection: array of documents or Deleted
  notifications,  \* Notification collection, in insertion order
  oid,            \* account -> the string of its _id (code units)
  hooked,         \* Message documents that went through the pre-save hook
  fetched,        \* the conversation id the last fetch-conversation derived
  messages,       \* Message collection, in insertion order
  clock,          \* the time new Date() returns
  listed,         \* the documents the last list route returned
  sockets,        \* the sockets in the order they connected: connected or
                  \* not, and the rooms each one joined
  activeUsers,    \* the socket registry: the Map of key -> socket id
  emitted,        \* what the last socket event made the server emit
  notifyFails,    \* the Notification collection refuses writes
  procs,          \* requests in progress: handler position and local state
  answered,       \* the like requests the interleaved handlers answered
                  \* with success so far
  req,            \* the request served last: route, requester, parameters
  res             \* the response to it

userVars == <<admins, connections, following, followers, profiles, oid>>
msgVars == <<hooked, fetched, messages, clock>>
sockVars == <<sockets, activeUsers, emitted>>
envVars == <<sockVars, listed, notifyFails>>
procVars == <<procs, answered>>
vars == <<admins, connections, following, followers, profiles, conns, posts,
          jobs,
          notifications, oid, hooked, fetched, messages, clock, listed,
          sockets,
          activeUsers, emitted, notifyFails, procs, answered, req, res>>

\* ------------------------------------------------------------------------
\* Array helpers (JavaScript / MongoDB array semantics)
\* ------------------------------------------------------------------------
Range(s) == {s[i] : i \in 1..Len(s)}

Includes(s, x) == \E i \in 1..Len(s) : s[i] = x

Count(s, x) == Cardinality({i \in 1..Len(s) : s[i] = x})

\* Array.prototype.filter keeping the elements different from x; also $pull
RECURSIVE Without(_, _)
Without(s, x) ==
  IF s = <<>> THEN <<>>
  ELSE IF Head(s) = x THEN Without(Tail(s), x)
       ELSE <<Head(s)>> \o Without(Tail(s), x)

\* MongoDB $addToSet
AddToSet(s, x) == IF Includes(s, x) THEN s ELSE Append(s, x)

\* sort({createdAt: -1}) of the documents with the ids S: documents are
\* numbered in the order of their creation, so the newest has the largest id
RECURSIVE Descending(_)
Descending(S) ==
  IF S = {} THEN <<>>
  ELSE LET newest == CHOOSE x \in S : \A y \in S : y <= x
       IN  <<newest>> \o Descending(S \ {newest})

\* The documents a find() returns: each with its _id
Documents(coll, ids) ==
  [k \in 1..Len(ids) |-> [id |-> ids[k], doc |-> coll[ids[k]]]]

\* res.status(n).json(...)
Reply(n) == [status |-> n]

\* new Notification({...}).save()
Notification(recipient, sender, type, relatedPost, relatedJob, relatedUser) ==
  [recipient |-> recipient, sender |-> sender, type |-> type,
   relatedPost |-> relatedPost, relatedJob |-> relatedJob,
   relatedUser |-> relatedUser]

CanNotify == Len(notifications) < MaxNotifs

\* await new Notification({...}).save(): the collection after the write,
\* unchanged when the write fails
SaveNotification(n) ==
  IF notifyFails THEN notifications ELSE Append(notifications, n)

AfterNotify_Success(n) == Reply(n)

\* The answer of a handler whose last await is the notification write: its
\* success response, or the 500 of its catch block when the write threw
AfterNotify(n) == IF notifyFails THEN Reply(500) ELSE Reply(n)

\* The database starts or stops refusing writes to the Notification
\* collection
SetNotifyFails(b) ==
  /\ notifyFails # b
  /\ notifyFails' = b
  /\ UNCHANGED <<userVars, conns, posts, jobs, notifications, msgVars,
                 sockVars, listed, procVars, req, res>>

\* ------------------------------------------------------------------------
\* Request text: strings are arrays of characters; trim() strips the blanks
\* at both ends
\* ------------------------------------------------------------------------
RECURSIVE TrimStart(_)
TrimStart(s) ==
  IF s # <<>> /\ Head(s) = " " THEN TrimStart(Tail(s)) ELSE s

RECURSIVE TrimEnd(_)
TrimEnd(s) ==
  IF s # <<>> /\ s[Len(s)] = " " THEN TrimEnd(SubSeq(s, 1, Len(s) - 1))
  ELSE s

Trim(s) == TrimEnd(TrimStart(s))

Contents == {<<>>, <<" ">>, <<" ", "a">>}

\* const { userId, message = '' } = req.body: the body has no message
NoMessage == <<>>

\* ------------------------------------------------------------------------
\* Connection model and router
\* ------------------------------------------------------------------------
\* new Connection({requester, recipient, message}): status defaults to
\* 'pending'
Connection(requester, recipient, message) ==
  [requester |-> requester, recipient |-> recipient, status |-> "pending",
   message |-> message]

ExistingConnection_OneWay(coll, a, b) ==
  {i \in 1..Len(coll) : coll[i].requester = a /\ coll[i].recipient = b}

\* Connection.findOne({$or: [{requester: a, recipient: b},
\*                           {requester: b, recipient: a}]})
ExistingConnection(coll, a, b) ==
  {i \in 1..Len(coll) :
     \/ coll[i].requester = a /\ coll[i].recipient = b
     \/ coll[i].requester = b /\ coll[i].recipient = a}

\* connectionSchema.index({requester: 1, recipient: 1}, {unique: true}):
\* an insert is refused when a document with the same (requester, recipient)
\* is stored
UniqueIndexAllows(coll, doc) ==
  ~ \E i \in 1..Len(coll) :
      coll[i].requester = doc.requester /\ coll[i].recipient = doc.recipient

\* router.post('/request')
PostRequest(me, userId, message) ==
  /\ req' = [op |-> "PostRequest", me |-> me, userId |-> userId,
             message |-> message]
  /\ UNCHANGED procVars
  /\ UNCHANGED <<posts, jobs, msgVars, envVars>>
  /\ IF userId = NoId THEN
       /\ res' = Reply(400)
       /\ UNCHANGED <<userVars, conns, notifications>>
     ELSE IF userId = me THEN
       /\ res' = Reply(400)
       /\ UNCHANGED <<userVars, conns, notifications>>
     ELSE IF userId \notin Users THEN
       /\ res' = Reply(404)
       /\ UNCHANGED <<userVars, conns, notifications>>
     ELSE IF ExistingConnection(conns, me, userId) # {} THEN
       /\ res' = Reply(400)
       /\ UNCHANGED <<userVars, conns, notifications>>
     ELSE IF ~ UniqueIndexAllows(conns,
                                 Connection(me, userId, Trim(message))) THEN
       /\ res' = Reply(500)
       /\ UNCHANGED <<userVars, conns, notifications>>
     ELSE
       /\ CanNotify
       /\ Len(conns) < MaxConns
       /\ conns' = Append(conns, Connection(me, userId, Trim(message)))
       /\ notifications' = SaveNotification(
            Notification(userId, me, "connection_request", None, None, me))
       /\ res' = AfterNotify(201)
       /\ UNCHANGED userVars

ReceivedRequests_AnyStatus(coll, me) ==
  Descending({i \in 1..Len(coll) : coll[i].recipient = me})

\* Connection.find({recipient: req.user._id, status: 'pending'})
\*   .sort({createdAt: -1})
ReceivedRequests(coll, me) ==
  Descending({i \in 1..Len(coll) :
                coll[i].recipient = me /\ coll[i].status = "pending"})

\* router.get('/requests/received')
GetReceived(me) ==
  /\ req' = [op |-> "GetReceived", me |-> me]
  /\ listed' = Documents(conns, ReceivedRequests(conns, me))
  /\ res' = Reply(200)
  /\ UNCHANGED <<userVars, conns, posts, jobs, notifications, msgVars,
                 sockVars, notifyFails, procVars>>

AddConnections_RequesterOnly(c, doc) ==
  [c EXCEPT ![doc.requester] = AddToSet(@, doc.recipient)]

\* User.findByIdAndUpdate(requester, {$addToSet: {connections: recipient}})
\* and the same for the recipient
AddConnections(c, doc) ==
  LET c1 == [c EXCEPT ![doc.requester] = AddToSet(@, doc.recipient)]
  IN  [c1 EXCEPT ![doc.recipient] = AddToSet(@, doc.requester)]

\* connection.recipient.toString() === req.user._id.toString()
IsRecipient(doc, me) == doc.recipient = me

IsPending_Always(doc) == TRUE

\* connection.status === 'pending'
IsPending(doc) == doc.status = "pending"

\* router.put('/request/:id/:action')
PutRequestAction(me, id, action) ==
  /\ req' = [op |-> "PutRequestAction", me |-> me, id |-> id,
             action |-> action]
  /\ UNCHANGED procVars
  /\ UNCHANGED <<posts, jobs, msgVars, envVars>>
  /\ IF action \notin {"accept", "decline"} THEN
       /\ res' = Reply(400)
       /\ UNCHANGED <<userVars, conns, notifications>>
     ELSE IF id \notin 1..Len(conns) THEN
       /\ res' = Reply(404)
       /\ UNCHANGED <<userVars, conns, notifications>>
     ELSE IF ~ IsRecipient(conns[id], me) THEN
       /\ res' = Reply(403)
       /\ UNCHANGED <<userVars, conns, notifications>>
     ELSE IF ~ IsPending(conns[id]) THEN
       /\ res' = Reply(400)
       /\ UNCHANGED <<userVars, conns, notifications>>
     ELSE IF action = "accept" THEN
       /\ CanNotify
       /\ conns' = [conns EXCEPT ![id].status = "accepted"]
       /\ connections' = AddConnections(connections, conns[id])
       /\ notifications' = SaveNotification(
            Notification(conns[id].requester, me, "connection_accepted",
                         None, None, me))
       /\ res' = AfterNotify(200)
       /\ UNCHANGED <<admins, following, followers, profiles, oid>>
     ELSE
       /\ conns' = [conns EXCEPT ![id].status = "declined"]
       /\ res' = Reply(200)
       /\ UNCHANGED <<userVars, notifications>>

\* User.findByIdAndUpdate(id, {$pull: {connections: x}}); no match, no change
PullConnection(c, id, x) ==
  IF id \in Users THEN [c EXCEPT ![id] = Without(@, x)] ELSE c

\* Connection.findOneAndUpdate({$or: [...], status: 'accepted'},
\*                             {status: 'declined'}): the first match
DeclineAccepted(coll, a, b) ==
  LET hits == {i \in ExistingConnection(coll, a, b) :
                 coll[i].status = "accepted"}
  IN  IF hits = {} THEN coll
      ELSE LET first == CHOOSE i \in hits : \A j \in hits : i <= j
           IN  [coll EXCEPT ![first].status = "declined"]

\* router.delete('/:userId') of the connections router
DeleteConnection(me, userId) ==
  /\ req' = [op |-> "DeleteConnection", me |-> me, userId |-> userId]
  /\ UNCHANGED procVars
  /\ UNCHANGED <<posts, jobs, msgVars, envVars>>
  /\ connections' = PullConnection(PullConnection(connections, me, userId),
                                   userId, me)
  /\ conns' = DeclineAccepted(conns, me, userId)
  /\ res' = Reply(200)
  /\ UNCHANGED <<admins, following, followers, profiles, oid, notifications>>

\* ------------------------------------------------------------------------
\* Users router: follow toggle and profile update
\* ------------------------------------------------------------------------
\* targetUser.followers.includes(req.user._id)
IsFollowing(target, me) == Includes(followers[target], me)

\* router.post('/:id/follow')
ToggleFollow(me, id) ==
  /\ req' = [op |-> "ToggleFollow", me |-> me, id |-> id]
  /\ UNCHANGED procVars
  /\ UNCHANGED <<admins, connections, profiles, oid, conns, posts, jobs,
                 notifications, msgVars, envVars>>
  /\ IF id = me THEN
       /\ res' = Reply(400)
       /\ UNCHANGED <<following, followers>>
     ELSE IF id \notin Users THEN
       /\ res' = Reply(404)
       /\ UNCHANGED <<following, followers>>
     ELSE IF IsFollowing(id, me) THEN
       /\ followers' = [followers EXCEPT ![id] = Without(@, me)]
       /\ following' = [following EXCEPT ![me] = Without(@, id)]
       /\ res' = [status |-> 200, isFollowing |-> FALSE]
     ELSE
       /\ followers' = [followers EXCEPT ![id] = AddToSet(@, me)]
       /\ following' = [following EXCEPT ![me] = AddToSet(@, id)]
       /\ res' = [status |-> 200, isFollowing |-> TRUE]

\* The fields router.put('/profile') deletes from the request body
Sensitive == {"passwordHash", "email", "isAdmin", "connections"}

\* delete updates.passwordHash; ... delete updates.connections: the four
\* top-level keys go, every other key of the body stays
Sanitize(body) == [f \in DOMAIN body \ Sensitive |-> body[f]]

\* The paths findByIdAndUpdate sets: the top-level keys of the update that
\* are not operators, and the keys of its $set operator
SetPaths(updates) ==
  LET plain == DOMAIN updates \ {"$set"}
      nested == IF "$set" \in DOMAIN updates THEN DOMAIN updates["$set"]
                ELSE {}
  IN  [f \in plain \cup nested |->
         IF f \in plain THEN updates[f] ELSE updates["$set"][f]]

\* Request bodies of profile update: a headline, the sensitive fields as
\* top-level keys, a followers array, and the same fields inside $set
ProfileBodies ==
  { [headline |-> "h"],
    [headline |-> "h", email |-> "e", passwordHash |-> "p",
     isAdmin |-> TRUE, connections |-> <<"u2">>],
    [followers |-> <<"u2">>],
    [k \in {"$set"} |-> [isAdmin |-> TRUE]],
    [k \in {"$set"} |-> [email |-> "e", connections |-> <<"u2">>]] }

\* router.put('/profile')
PutProfile(me, body) ==
  LET set == SetPaths(Sanitize(body))
      has(f) == f \in DOMAIN set
  IN  /\ req' = [op |-> "PutProfile", me |-> me, body |-> body]
      /\ UNCHANGED procVars
      /\ UNCHANGED <<oid, conns, posts, jobs, notifications, msgVars,
                     envVars>>
      /\ profiles' = [profiles EXCEPT ![me] =
                        [f \in DOMAIN @ |-> IF has(f) THEN set[f] ELSE @[f]]]
      /\ admins' = IF ~ has("isAdmin") THEN admins
                   ELSE IF set["isAdmin"] THEN admins \cup {me}
                   ELSE admins \ {me}
      /\ connections' = IF has("connections")
                        THEN [connections EXCEPT ![me] = set["connections"]]
                        ELSE connections
      /\ following' = IF has("following")
                      THEN [following EXCEPT ![me] = set["following"]]
                      ELSE following
      /\ followers' = IF has("followers")
                      THEN [followers EXCEPT ![me] = set["followers"]]
                      ELSE followers
      /\ res' = Reply(200)

\* ------------------------------------------------------------------------
\* Mongoose documents: save() of a loaded document sends only the modified
\* paths.  An array changed with push() is sent as $push, an array that was
\* assigned is sent as $set of the whole array together with a check of the
\* version (__v) the document was loaded with; both increment __v.
\* ------------------------------------------------------------------------
Deleted == [deleted |-> TRUE]

Exists(coll, id) == id \in 1..Len(coll) /\ coll[id] # Deleted

\* The update a save() sends: one array operation and the $set of a scalar
Push(path, value) == [kind |-> "$push", path |-> path, value |-> value]
SetArray(path, value) == [kind |-> "$set", path |-> path, value |-> value]

ApplyArrayOp(doc, u) ==
  LET old == doc[u.path]
      new == IF u.kind = "$push" THEN Append(old, u.value) ELSE u.value
  IN  [[doc EXCEPT ![u.path] = new] EXCEPT !.v = @ + 1]

\* ------------------------------------------------------------------------
\* Post model and router
\* ------------------------------------------------------------------------
PreSavePost_SharesOnce(doc) ==
  [doc EXCEPT !.engagementScore =
     Len(doc.likes) + Len(doc.comments) + Len(doc.shares)]

\* postSchema.pre('save')
PreSavePost(doc) ==
  [doc EXCEPT !.engagementScore =
     Len(doc.likes) + Len(doc.comments) + (Len(doc.shares) * 2)]

Post_Private(author, content) ==
  [author |-> author, content |-> content, likes |-> <<>>,
   comments |-> <<>>, shares |-> <<>>, visibility |-> "private",
   engagementScore |-> 0, v |-> 0]

\* new Post({author, content, ...}) with the schema defaults
Post(author, content) ==
  [author |-> author, content |-> content, likes |-> <<>>,
   comments |-> <<>>, shares |-> <<>>, visibility |-> "public",
   engagementScore |-> 0, v |-> 0]

\* post.save() of the copy `doc` loaded with version doc.v, changed by the
\* array operation `u`: the pre-save hook computes the score on the copy,
\* then the update is applied to the stored document
SavePost(coll, id, doc, u) ==
  LET copy == PreSavePost(ApplyArrayOp(doc, u))
  IN  IF ~ Exists(coll, id) THEN [ok |-> FALSE, coll |-> coll]
      ELSE IF u.kind = "$set" /\ coll[id].v # doc.v
        THEN [ok |-> FALSE, coll |-> coll]
      ELSE [ok |-> TRUE,
            coll |-> [coll EXCEPT ![id] =
                        [ApplyArrayOp(@, u) EXCEPT
                           !.engagementScore =
                              IF copy.engagementScore = doc.engagementScore
                              THEN @ ELSE copy.engagementScore]]]

\* router.post('/') of the posts router
CreatePost(me, content) ==
  /\ req' = [op |-> "CreatePost", me |-> me, content |-> content]
  /\ UNCHANGED procVars
  /\ UNCHANGED <<userVars, conns, jobs, notifications, msgVars, envVars>>
  /\ IF Trim(content) = <<>> THEN
       /\ res' = Reply(400)
       /\ UNCHANGED posts
     ELSE
       /\ posts' = Append(posts, PreSavePost(Post(me, Trim(content))))
       /\ res' = Reply(201)

\* { engagementScore: { $gte: 10 } }
TrendingScore == 10

\* const { page = 1, limit = 10 } = req.query
DefaultPage == 1
DefaultLimit == 10

\* const feedUserIds = [...connections, ...following, req.user._id]
FeedUserIds(me) == connections[me] \o following[me] \o <<me>>

FeedMatch_AnyVisibility(doc, me) ==
  \/ Includes(FeedUserIds(me), doc.author)
  \/ doc.engagementScore >= TrendingScore

\* The filter of Post.find in the feed route
FeedMatch(doc, me) ==
  /\ \/ Includes(FeedUserIds(me), doc.author)
     \/ doc.engagementScore >= TrendingScore
  /\ doc.visibility \in {"public", "connections"}

\* Post.find({...}).sort({createdAt: -1, engagementScore: -1}): creation
\* times differ, so the second key never decides
FeedIds(coll, me) ==
  Descending({i \in 1..Len(coll) : Exists(coll, i) /\ FeedMatch(coll[i], me)})

\* .limit(limit * 1).skip((page - 1) * limit); limit(0) is no limit
Page(s, page, limit) ==
  LET skip == (page - 1) * limit
      last == IF limit = 0 \/ skip + limit > Len(s) THEN Len(s)
              ELSE skip + limit
  IN  SubSeq(s, skip + 1, last)

\* Math.ceil(total / limit)
TotalPages(total, limit) == (total + limit - 1) \div limit

\* router.get('/feed')
GetFeed(me, page, limit) ==
  /\ req' = [op |-> "GetFeed", me |-> me, page |-> page, limit |-> limit]
  /\ listed' = Documents(posts, Page(FeedIds(posts, me), page, limit))
  /\ res' = [status |-> 200,
             totalPages |-> TotalPages(Len(FeedIds(posts, me)), limit)]
  /\ UNCHANGED <<userVars, conns, posts, jobs, notifications, msgVars,
                 sockVars, notifyFails, procVars>>

LikeOp_AlwaysPush(doc, me) == Push("likes", me)

\* The change the like handler makes to its copy of the post
LikeOp(doc, me) ==
  IF Includes(doc.likes, me)
  THEN SetArray("likes", Without(doc.likes, me))
  ELSE Push("likes", me)

NotSelf_Always(doc, me) == TRUE

\* if (post.author.toString() !== req.user._id.toString())
NotSelf(doc, me) == doc.author # me

\* router.post('/:id/like')
PostLike(me, id) ==
  /\ req' = [op |-> "PostLike", me |-> me, id |-> id]
  /\ UNCHANGED procVars
  /\ UNCHANGED <<userVars, conns, jobs, msgVars, envVars>>
  /\ IF ~ Exists(posts, id) THEN
       /\ res' = Reply(404)
       /\ UNCHANGED <<posts, notifications>>
     ELSE
       LET post == posts[id]
           isLiked == Includes(post.likes, me)
           saved == SavePost(posts, id, post, LikeOp(post, me))
       IN  /\ post.v < MaxVersion
           /\ IF ~ saved.ok THEN
                /\ res' = Reply(500)
                /\ UNCHANGED <<posts, notifications>>
              ELSE
                /\ posts' = saved.coll
                /\ IF ~ isLiked /\ NotSelf(post, me) THEN
                     /\ CanNotify
                     /\ notifications' = SaveNotification(
                          Notification(post.author, me, "post_like",
                                       id, None, None))
                     /\ res' = AfterNotify(200)
                   ELSE
                     /\ res' = Reply(200)
                     /\ UNCHANGED notifications

\* router.post('/:id/comment')
PostComment(me, id, content) ==
  /\ req' = [op |-> "PostComment", me |-> me, id |-> id,
             content |-> content]
  /\ UNCHANGED procVars
  /\ UNCHANGED <<userVars, conns, jobs, msgVars, envVars>>
  /\ IF Trim(content) = <<>> THEN
       /\ res' = Reply(400)
       /\ UNCHANGED <<posts, notifications>>
     ELSE IF ~ Exists(posts, id) THEN
       /\ res' = Reply(404)
       /\ UNCHANGED <<posts, notifications>>
     ELSE
       LET post == posts[id]
           newComment == [user |-> me, content |-> Trim(content)]
           saved == SavePost(posts, id, post, Push("comments", newComment))
       IN  /\ post.v < MaxVersion
           /\ IF ~ saved.ok THEN
                /\ res' = Reply(500)
                /\ UNCHANGED <<posts, notifications>>
              ELSE
                /\ posts' = saved.coll
                /\ IF NotSelf(post, me) THEN
                     /\ CanNotify
                     /\ notifications' = SaveNotification(
                          Notification(post.author, me, "post_comment",
                                       id, None, None))
                     /\ res' = AfterNotify(200)
                   ELSE
                     /\ res' = Reply(200)
                     /\ UNCHANGED notifications

\* post.shares.find(share => share.user.toString() === req.user._id.toString())
ExistingShare(doc, me) == \E i \in 1..Len(doc.shares) : doc.shares[i].user = me

\* router.post('/:id/share')
PostShare(me, id) ==
  /\ req' = [op |-> "PostShare", me |-> me, id |-> id]
  /\ UNCHANGED procVars
  /\ UNCHANGED <<userVars, conns, jobs, msgVars, envVars>>
  /\ IF ~ Exists(posts, id) THEN
       /\ res' = Reply(404)
       /\ UNCHANGED <<posts, notifications>>
     ELSE IF ExistingShare(posts[id], me) THEN
       /\ res' = Reply(400)
       /\ UNCHANGED <<posts, notifications>>
     ELSE
       LET post == posts[id]
           saved == SavePost(posts, id, post, Push("shares", [user |-> me]))
       IN  /\ post.v < MaxVersion
           /\ IF ~ saved.ok THEN
                /\ res' = Reply(500)
                /\ UNCHANGED <<posts, notifications>>
              ELSE
                /\ posts' = saved.coll
                /\ IF NotSelf(post, me) THEN
                     /\ CanNotify
                     /\ notifications' = SaveNotification(
                          Notification(post.author, me, "post_share",
                                       id, None, None))
                     /\ res' = AfterNotify(200)
                   ELSE
                     /\ res' = Reply(200)
                     /\ UNCHANGED notifications

MayDeletePost_Anyone(doc, me) == TRUE

\* post.author is the requester, or req.user.isAdmin
MayDeletePost(doc, me) == doc.author = me \/ me \in admins

\* router.delete('/:id') of the posts router
DeletePost(me, id) ==
  /\ req' = [op |-> "DeletePost", me |-> me, id |-> id]
  /\ UNCHANGED procVars
  /\ UNCHANGED <<userVars, conns, jobs, notifications, msgVars, envVars>>
  /\ IF ~ Exists(posts, id) THEN
       /\ res' = Reply(404)
       /\ UNCHANGED posts
     ELSE IF ~ MayDeletePost(posts[id], me) THEN
       /\ res' = Reply(403)
       /\ UNCHANGED posts
     ELSE
       /\ posts' = [posts EXCEPT ![id] = Deleted]
       /\ res' = Reply(200)

\* ------------------------------------------------------------------------
\* Job model and router
\* ------------------------------------------------------------------------
\* Request bodies of create-job: title stands for the required fields
JobBodies ==
  {[title |-> t, isActive |-> a] : t \in {None, "t"},
                                   a \in {None, "true", "false"}}

\* Request bodies of update-job
JobUpdates ==
  {[isActive |-> a] : a \in {"true", "false"}}
    \cup {[poster |-> u] : u \in Users}
    \cup {[title |-> ""]}

\* new Job({...req.body, poster: req.user._id}) with the schema defaults
Job(body, me) ==
  [poster |-> me, title |-> body.title,
   isActive |-> (body.isActive # "false"), applications |-> <<>>, v |-> 0]

\* Schema validation of a job: title is required
ValidJob(doc) == doc.title \notin {None, ""}

\* router.post('/') of the jobs router
CreateJob(me, body) ==
  /\ req' = [op |-> "CreateJob", me |-> me, body |-> body]
  /\ UNCHANGED procVars
  /\ UNCHANGED <<userVars, conns, posts, notifications, msgVars, envVars>>
  /\ IF ~ ValidJob(Job(body, me)) THEN
       /\ res' = Reply(500)
       /\ UNCHANGED jobs
     ELSE
       /\ Len(jobs) < MaxJobs
       /\ jobs' = Append(jobs, Job(body, me))
       /\ res' = Reply(201)

ExistingApplication_Never(doc, me) == FALSE

\* job.applications.find(app => app.applicant.toString() === id)
ExistingApplication(doc, me) ==
  \E i \in 1..Len(doc.applications) : doc.applications[i].applicant = me

\* job.save() of the copy `doc`, changed by the array operation `u`
SaveJob(coll, id, doc, u) ==
  IF ~ Exists(coll, id) THEN [ok |-> FALSE, coll |-> coll]
  ELSE IF u.kind = "$set" /\ coll[id].v # doc.v
    THEN [ok |-> FALSE, coll |-> coll]
  ELSE [ok |-> TRUE, coll |-> [coll EXCEPT ![id] = ApplyArrayOp(@, u)]]

\* router.post('/:id/apply')
ApplyJob(me, id) ==
  /\ req' = [op |-> "ApplyJob", me |-> me, id |-> id]
  /\ UNCHANGED procVars
  /\ UNCHANGED <<userVars, conns, posts, msgVars, envVars>>
  /\ IF ~ Exists(jobs, id) THEN
       /\ res' = Reply(404)
       /\ UNCHANGED <<jobs, notifications>>
     ELSE IF ~ jobs[id].isActive THEN
       /\ res' = Reply(400)
       /\ UNCHANGED <<jobs, notifications>>
     ELSE IF ExistingApplication(jobs[id], me) THEN
       /\ res' = Reply(400)
       /\ UNCHANGED <<jobs, notifications>>
     ELSE
       LET job == jobs[id]
           saved == SaveJob(jobs, id, job,
                      Push("applications",
                           [applicant |-> me, status |-> "applied"]))
       IN  IF ~ saved.ok THEN
             /\ res' = Reply(500)
             /\ UNCHANGED <<jobs, notifications>>
           ELSE
             /\ CanNotify
             /\ jobs' = saved.coll
             /\ notifications' = SaveNotification(
                  Notification(job.poster, me, "job_match", None, id, me))
             /\ res' = AfterNotify(200)

\* job.poster.toString() === req.user._id.toString()
IsPoster(doc, me) == doc.poster = me

\* Job.findByIdAndUpdate(id, req.body, {runValidators: true}): the fields
\* of the body overwrite the stored ones
UpdatedJob(doc, body) ==
  [f \in DOMAIN doc |->
     IF f \in DOMAIN body
     THEN IF f = "isActive" THEN body[f] = "true" ELSE body[f]
     ELSE doc[f]]

\* router.put('/:id') of the jobs router
PutJob(me, id, body) ==
  /\ req' = [op |-> "PutJob", me |-> me, id |-> id, body |-> body]
  /\ UNCHANGED procVars
  /\ UNCHANGED <<userVars, conns, posts, notifications, msgVars, envVars>>
  /\ IF ~ Exists(jobs, id) THEN
       /\ res' = Reply(404)
       /\ UNCHANGED jobs
     ELSE IF ~ IsPoster(jobs[id], me) THEN
       /\ res' = Reply(403)
       /\ UNCHANGED jobs
     ELSE IF ~ ValidJob(UpdatedJob(jobs[id], body)) THEN
       /\ res' = Reply(500)
       /\ UNCHANGED jobs
     ELSE
       /\ jobs' = [jobs EXCEPT ![id] = UpdatedJob(@, body)]
       /\ res' = Reply(200)

\* const validStatuses = [...] of update-application-status
ValidStatuses ==
  {"applied", "reviewing", "shortlisted", "interviewed", "rejected", "hired"}

MayUpdateApplication_OrAdmin(doc, me) == IsPoster(doc, me) \/ me \in admins

\* job.poster.toString() === req.user._id.toString()
MayUpdateApplication(doc, me) == IsPoster(doc, me)

\* router.put('/:jobId/applications/:applicationId'); applicationId is the
\* position of the application in the job's array.  job.save() sends the
\* status as a $set of the array element, guarded by the version the job was
\* loaded with.
PutApplication(me, jobId, applicationId, status) ==
  /\ req' = [op |-> "PutApplication", me |-> me, jobId |-> jobId,
             applicationId |-> applicationId, status |-> status]
  /\ UNCHANGED procVars
  /\ UNCHANGED <<userVars, conns, posts, notifications, msgVars, envVars>>
  /\ IF status \notin ValidStatuses THEN
       /\ res' = Reply(400)
       /\ UNCHANGED jobs
     ELSE IF ~ Exists(jobs, jobId) THEN
       /\ res' = Reply(404)
       /\ UNCHANGED jobs
     ELSE IF ~ MayUpdateApplication(jobs[jobId], me) THEN
       /\ res' = Reply(403)
       /\ UNCHANGED jobs
     ELSE IF applicationId \notin 1..Len(jobs[jobId].applications) THEN
       /\ res' = Reply(404)
       /\ UNCHANGED jobs
     ELSE
       /\ jobs' = [jobs EXCEPT
                     ![jobId].applications[applicationId].status = status]
       /\ res' = Reply(200)

\* job.poster is the requester, or req.user.isAdmin
MayDeleteJob(doc, me) == doc.poster = me \/ me \in admins

\* router.delete('/:id') of the jobs router
DeleteJob(me, id) ==
  /\ req' = [op |-> "DeleteJob", me |-> me, id |-> id]
  /\ UNCHANGED procVars
  /\ UNCHANGED <<userVars, conns, posts, notifications, msgVars, envVars>>
  /\ IF ~ Exists(jobs, id) THEN
       /\ res' = Reply(404)
       /\ UNCHANGED jobs
     ELSE IF ~ MayDeleteJob(jobs[id], me) THEN
       /\ res' = Reply(403)
       /\ UNCHANGED jobs
     ELSE
       /\ jobs' = [jobs EXCEPT ![id] = Deleted]
       /\ res' = Reply(200)

\* ------------------------------------------------------------------------
\* Express routing: a router tries its routes in the order of their
\* registration and runs the first one whose method and path match
\* ------------------------------------------------------------------------
\* Path segments: a literal, a route parameter (in patterns), or the string
\* of the ObjectId of the document numbered n
Lit(s) == [lit |-> s]
Param(name) == [param |-> name]
IdString(n) == [hex |-> n]

Route(method, pattern, handler) ==
  [method |-> method, pattern |-> pattern, handler |-> handler]

\* A route parameter matches any segment, a literal matches itself
SegmentMatches(p, s) == "param" \in DOMAIN p \/ p = s

RouteMatches(route, method, path) ==
  /\ route.method = method
  /\ Len(route.pattern) = Len(path)
  /\ \A i \in 1..Len(path) : SegmentMatches(route.pattern[i], path[i])

Matching(routes, method, path) ==
  {i \in 1..Len(routes) : RouteMatches(routes[i], method, path)}

\* The handler of the first matching route, None when no route matches
Dispatch(routes, method, path) ==
  LET m == Matching(routes, method, path)
  IN  IF m = {} THEN None
      ELSE routes[CHOOSE i \in m : \A j \in m : i <= j].handler

\* Mongoose casts the id of findById to an ObjectId and throws a CastError
\* for a string that is not one
IsObjectId(s) == "hex" \in DOMAIN s

\* ------------------------------------------------------------------------
\* Notifications router
\* ------------------------------------------------------------------------
NotificationRoutes ==
  << Route("GET", <<>>, "GetNotifications"),
     Route("PUT", <<Param("id"), Lit("read")>>, "ReadNotification"),
     Route("PUT", <<Lit("read-all")>>, "ReadAll"),
     Route("DELETE", <<Param("id")>>, "DeleteNotification"),
     Route("DELETE", <<Lit("clear-all")>>, "ClearAll") >>

\* Notification.deleteMany({ recipient })
DeleteMany(coll, me) ==
  [i \in 1..Len(coll) |->
     IF coll[i] # Deleted /\ coll[i].recipient = me THEN Deleted ELSE coll[i]]

\* router.delete('/:id') of the notifications router
DeleteNotification(me, id) ==
  IF ~ IsObjectId(id) THEN
    /\ res' = Reply(500)
    /\ UNCHANGED notifications
  ELSE IF ~ Exists(notifications, id.hex) THEN
    /\ res' = Reply(404)
    /\ UNCHANGED notifications
  ELSE IF notifications[id.hex].recipient # me THEN
    /\ res' = Reply(403)
    /\ UNCHANGED notifications
  ELSE
    /\ notifications' = [notifications EXCEPT ![id.hex] = Deleted]
    /\ res' = Reply(200)

\* router.delete('/clear-all')
ClearAll(me) ==
  /\ notifications' = DeleteMany(notifications, me)
  /\ res' = Reply(200)

\* A DELETE request to /api/notifications<path>, dispatched by the router
NotificationsDelete(me, path) ==
  LET handler == Dispatch(NotificationRoutes, "DELETE", path)
  IN  /\ req' = [op |-> "NotificationsDelete", me |-> me, path |-> path,
                 handler |-> handler]
      /\ UNCHANGED procVars
      /\ UNCHANGED <<userVars, conns, posts, jobs, msgVars, envVars>>
      /\ IF handler = "DeleteNotification" THEN
           DeleteNotification(me, path[1])
         ELSE IF handler = "ClearAll" THEN
           ClearAll(me)
         ELSE
           /\ res' = Reply(404)
           /\ UNCHANGED notifications

\* ------------------------------------------------------------------------
\* Jobs router: the routes in the order of their registration, and the
\* routes that list applications
\* ------------------------------------------------------------------------
JobRoutes ==
  << Route("POST", <<>>, "CreateJob"),
     Route("GET", <<>>, "GetJobs"),
     Route("GET", <<Param("id")>>, "GetJob"),
     Route("POST", <<Param("id"), Lit("apply")>>, "ApplyJob"),
     Route("GET", <<Param("id"), Lit("applications")>>, "GetApplications"),
     Route("PUT", <<Param("jobId"), Lit("applications"),
                    Param("applicationId")>>, "PutApplication"),
     Route("GET", <<Lit("my"), Lit("applications")>>, "MyApplications"),
     Route("PUT", <<Param("id")>>, "PutJob"),
     Route("DELETE", <<Param("id")>>, "DeleteJob") >>

\* const { page = 1, limit = 10 } = req.query of list-my-applications
MyPage == 1
MyLimit == 10

\* router.get('/:id/applications')
GetApplications(me, id) ==
  IF ~ IsObjectId(id) THEN
    /\ res' = Reply(500)
    /\ listed' = <<>>
  ELSE IF ~ Exists(jobs, id.hex) THEN
    /\ res' = Reply(404)
    /\ listed' = <<>>
  ELSE IF ~ IsPoster(jobs[id.hex], me) THEN
    /\ res' = Reply(403)
    /\ listed' = <<>>
  ELSE
    /\ res' = Reply(200)
    /\ listed' = jobs[id.hex].applications

\* Job.find({ 'applications.applicant': req.user._id })
AppliedJobs(coll, me) ==
  {i \in 1..Len(coll) : Exists(coll, i) /\ ExistingApplication(coll[i], me)}

\* job.applications.find(app => app.applicant.toString() === id)
UserApplication(doc, me) ==
  doc.applications[CHOOSE i \in 1..Len(doc.applications) :
                     /\ doc.applications[i].applicant = me
                     /\ \A j \in 1..(i - 1) :
                          doc.applications[j].applicant # me]

\* The orders a sort can put the documents S in
Orderings(S) ==
  {s \in [1..Cardinality(S) -> S] :
     \A i, j \in 1..Cardinality(S) : i # j => s[i] # s[j]}

\* router.get('/my/applications'): the jobs come sorted by the time of
\* their applications, which the stored state leaves open
MyApplications(me) ==
  /\ res' = Reply(200)
  /\ \E ids \in Orderings(AppliedJobs(jobs, me)) :
       LET page == Page(ids, MyPage, MyLimit)
       IN  listed' = [k \in 1..Len(page) |->
                        [job |-> page[k],
                         application |-> UserApplication(jobs[page[k]], me)]]

\* A GET request to /api/jobs<path> with a path of two segments, dispatched
\* by the router
JobsGet(me, path) ==
  LET handler == Dispatch(JobRoutes, "GET", path)
  IN  /\ Len(path) = 2
      /\ req' = [op |-> "JobsGet", me |-> me, path |-> path,
                 handler |-> handler]
      /\ UNCHANGED procVars
      /\ UNCHANGED <<userVars, conns, posts, jobs, notifications, msgVars,
                     sockVars, notifyFails>>
      /\ IF handler = "GetApplications" THEN
           GetApplications(me, path[1])
         ELSE IF handler = "MyApplications" THEN
           MyApplications(me)
         ELSE
           /\ res' = Reply(404)
           /\ listed' = <<>>

\* ------------------------------------------------------------------------
\* Message model: the conversation id
\* ------------------------------------------------------------------------
\* The strings of ObjectIds: IdLen hexadecimal digits, as code units
HexDigits == {48, 97}
Underscore == 95
IdStrings == [1..IdLen -> HexDigits]

\* ObjectId.prototype.toString of an account's _id
IdToString(u) == oid[u]

\* The order of Array.prototype.sort without a comparator: code unit by
\* code unit, a proper prefix first
RECURSIVE LessThan(_, _)
LessThan(s, t) ==
  IF t = <<>> THEN FALSE
  ELSE IF s = <<>> THEN TRUE
  ELSE IF Head(s) # Head(t) THEN Head(s) < Head(t)
  ELSE LessThan(Tail(s), Tail(t))

Sort_Unsorted(a, b) == <<a, b>>

\* [a, b].sort()
Sort(a, b) == IF LessThan(b, a) THEN <<b, a>> ELSE <<a, b>>

\* ids.join('_')
Join(ids) == ids[1] \o <<Underscore>> \o ids[2]

\* A Date path that is not set; the times of the clock are 1, 2, ...
NoDate == 0

\* new Message({sender, recipient, content, type}): conversationId and
\* readAt are not set
Message(sender, recipient, content) ==
  [sender |-> sender, recipient |-> recipient, content |-> content,
   readAt |-> NoDate, conversationId |-> <<>>]

\* messageSchema.pre('save')
PreSaveMessage(doc) ==
  IF doc.conversationId = <<>>
  THEN [doc EXCEPT !.conversationId =
          Join(Sort(IdToString(doc.sender), IdToString(doc.recipient)))]
  ELSE doc

\* const conversationId = [req.user._id.toString(), userId].sort().join('_')
ConversationId(me, userId) == Join(Sort(IdToString(me), userId))

\* The pre-save hook runs on a new message from `me` to `recipient`
HookNewMessage(me, recipient) ==
  /\ Cardinality(hooked) < MaxHooked
  /\ hooked' = hooked \cup {PreSaveMessage(Message(me, recipient, <<"a">>))}
  /\ UNCHANGED <<userVars, conns, posts, jobs, notifications, fetched,
                 messages, clock, envVars, procVars, req, res>>

\* The pre-save hook runs again on a document it has already filled in
HookSavedMessage(doc) ==
  /\ hooked' = hooked \cup {PreSaveMessage(doc)}
  /\ UNCHANGED <<userVars, conns, posts, jobs, notifications, fetched,
                 messages, clock, envVars, procVars, req, res>>

\* The validation save() runs before the pre('save') hooks: sender,
\* recipient, content and conversationId are required paths, and an empty
\* string does not satisfy `required`
ValidMessage(doc) == doc.content # <<>> /\ doc.conversationId # <<>>

\* message.save(): validation, then the hook, then the insert
SaveMessage(coll, doc) ==
  IF ~ ValidMessage(doc) THEN [ok |-> FALSE, coll |-> coll]
  ELSE [ok |-> TRUE, coll |-> Append(coll, PreSaveMessage(doc))]

\* router.post('/') of the messages router
SendMessage(me, recipient, content) ==
  /\ req' = [op |-> "SendMessage", me |-> me, recipient |-> recipient,
             content |-> content]
  /\ UNCHANGED <<userVars, conns, posts, jobs, notifications, hooked,
                 fetched, clock, envVars, procVars>>
  /\ IF recipient = NoId \/ content = <<>> THEN
       /\ res' = Reply(400)
       /\ UNCHANGED messages
     ELSE IF recipient \notin Users THEN
       /\ res' = Reply(404)
       /\ UNCHANGED messages
     ELSE
       LET saved == SaveMessage(messages, Message(me, recipient, content))
       IN  IF ~ saved.ok THEN
             /\ res' = Reply(500)
             /\ UNCHANGED messages
           ELSE
             /\ Len(messages) < MaxMessages
             /\ messages' = saved.coll
             /\ res' = Reply(201)

\* const { page = 1, limit = 50 } = req.query of fetch-conversation
MessageLimit == 50

\* Message.find({conversationId}).sort({createdAt: -1})
ConversationMessages(coll, id) ==
  Descending({i \in 1..Len(coll) : coll[i].conversationId = id})

\* messages.reverse()
Reverse(s) == [i \in 1..Len(s) |-> s[Len(s) + 1 - i]]

MarkRead_SetAgain(coll, id, me) ==
  [i \in 1..Len(coll) |->
     IF coll[i].conversationId = id /\ coll[i].recipient = me
     THEN [coll[i] EXCEPT !.readAt = clock]
     ELSE coll[i]]

\* Message.updateMany({conversationId, recipient, readAt: null},
\*                    {readAt: new Date()})
MarkRead(coll, id, me) ==
  [i \in 1..Len(coll) |->
     IF /\ coll[i].conversationId = id
        /\ coll[i].recipient = me
        /\ coll[i].readAt = NoDate
     THEN [coll[i] EXCEPT !.readAt = clock]
     ELSE coll[i]]

\* router.get('/conversation/:userId'), with the default page and limit
GetConversation(me, userId) ==
  /\ req' = [op |-> "GetConversation", me |-> me, userId |-> userId]
  /\ UNCHANGED procVars
  /\ fetched' = ConversationId(me, userId)
  /\ listed' = Documents(messages,
                 Reverse(Page(ConversationMessages(messages,
                                                   ConversationId(me, userId)),
                              DefaultPage, MessageLimit)))
  /\ messages' = MarkRead(messages, ConversationId(me, userId), me)
  /\ res' = Reply(200)
  /\ UNCHANGED <<userVars, conns, posts, jobs, notifications, hooked,
                 clock, sockVars, notifyFails>>

\* router.put('/read/:conversationId')
PutRead(me, conversationId) ==
  /\ req' = [op |-> "PutRead", me |-> me, conversationId |-> conversationId]
  /\ messages' = MarkRead(messages, conversationId, me)
  /\ res' = Reply(200)
  /\ UNCHANGED <<userVars, conns, posts, jobs, notifications, hooked,
                 fetched, clock, envVars, procVars>>

\* Time passes: a later new Date() returns a later time
Tick ==
  /\ clock < MaxClock
  /\ clock' = clock + 1
  /\ UNCHANGED <<userVars, conns, posts, jobs, notifications, hooked,
                 fetched, messages, envVars, procVars, req, res>>

\* ------------------------------------------------------------------------
\* Socket.IO: the registry activeUsers is a Map, kept as its entries in
\* insertion order.  Socket ids are the positions in `sockets`; a new
\* connection always gets a new id.
\* ------------------------------------------------------------------------
\* The value of Map.prototype.get for an absent key, as a socket id
NoSocket == 0

MapHas(m, k) == \E i \in 1..Len(m) : m[i].key = k

MapGet_Any(m, k) == IF m = <<>> THEN NoSocket ELSE m[1].value

\* activeUsers.get(k)
MapGet(m, k) ==
  IF MapHas(m, k) THEN m[CHOOSE i \in 1..Len(m) : m[i].key = k].value
  ELSE NoSocket

\* activeUsers.set(k, v): an existing entry keeps its place
MapSet(m, k, v) ==
  IF MapHas(m, k)
  THEN [i \in 1..Len(m) |-> IF m[i].key = k THEN [key |-> k, value |-> v]
                             ELSE m[i]]
  ELSE Append(m, [key |-> k, value |-> v])

\* activeUsers.delete(m[i].key)
MapDeleteAt(m, i) == SubSeq(m, 1, i - 1) \o SubSeq(m, i + 1, Len(m))

\* Payloads of the send event
Payloads == {"hello"}

\* io.on('connection')
Connect ==
  /\ Len(sockets) < MaxSockets
  /\ sockets' = Append(sockets, [connected |-> TRUE, rooms |-> {}])
  /\ req' = [op |-> "connection", socket |-> Len(sockets) + 1]
  /\ emitted' = <<>>
  /\ UNCHANGED <<userVars, conns, posts, jobs, notifications, msgVars,
                 activeUsers, listed, notifyFails, procVars, res>>

\* socket.on('join_user')
JoinUser(socket, userId) ==
  /\ socket \in 1..Len(sockets) /\ sockets[socket].connected
  /\ activeUsers' = MapSet(activeUsers, userId, socket)
  /\ sockets' = [sockets EXCEPT ![socket].rooms = @ \cup {userId}]
  /\ req' = [op |-> "join_user", socket |-> socket, userId |-> userId]
  /\ emitted' = <<>>
  /\ UNCHANGED <<userVars, conns, posts, jobs, notifications, msgVars,
                 listed, notifyFails, procVars, res>>

\* socket.on('send_message')
SocketSend(socket, receiverId, message) ==
  /\ socket \in 1..Len(sockets) /\ sockets[socket].connected
  /\ req' = [op |-> "send_message", socket |-> socket,
             receiverId |-> receiverId, message |-> message]
  /\ LET receiverSocketId == MapGet(activeUsers, receiverId)
     IN  emitted' = IF receiverSocketId # NoSocket
                    THEN <<[to |-> receiverSocketId,
                            event |-> "receive_message",
                            message |-> message]>>
                    ELSE <<>>
  /\ UNCHANGED <<userVars, conns, posts, jobs, notifications, msgVars,
                 sockets, activeUsers, listed, notifyFails, procVars, res>>

\* socket.on('disconnect'): the socket has left its rooms, and the first
\* entry holding the socket's id goes
Disconnect(socket) ==
  /\ socket \in 1..Len(sockets) /\ sockets[socket].connected
  /\ sockets' = [sockets EXCEPT ![socket] =
                    [connected |-> FALSE, rooms |-> {}]]
  /\ LET hits == {i \in 1..Len(activeUsers) :
                    activeUsers[i].value = socket}
     IN  activeUsers' =
           IF hits = {} THEN activeUsers
           ELSE MapDeleteAt(activeUsers,
                            CHOOSE i \in hits : \A j \in hits : i <= j)
  /\ req' = [op |-> "disconnect", socket |-> socket]
  /\ emitted' = <<>>
  /\ UNCHANGED <<userVars, conns, posts, jobs, notifications, msgVars,
                 listed, notifyFails, procVars, res>>

\* ------------------------------------------------------------------------
\* Requests in progress.  Node runs a handler up to its next await and then
\* any other handler may run; each step below is the code from one database
\* call to the next, with the database call itself atomic.
\* ------------------------------------------------------------------------
Procs == 1..NumProcs

Idle == [pc |-> "idle"]

InProgress == {p \in Procs : procs[p] # Idle}

Quiescent == InProgress = {}

\* Notifications still to be written by requests in progress are counted
\* against the bound when a request starts
MayStart == Len(notifications) + Cardinality(InProgress) < MaxNotifs

\* router.post('/request') up to connection.save(): the validation, the
\* User lookup and the findOne (accounts are never deleted, so the two
\* reads are taken together)
RequestFind(p, me, userId, message) ==
  /\ procs[p] = Idle
  /\ UNCHANGED <<userVars, conns, posts, jobs, notifications, msgVars, envVars,
                 answered>>
  /\ LET r == [op |-> "PostRequest", me |-> me, userId |-> userId,
               message |-> message]
     IN  IF userId = NoId \/ userId = me THEN
           /\ req' = r /\ res' = Reply(400) /\ UNCHANGED procs
         ELSE IF userId \notin Users THEN
           /\ req' = r /\ res' = Reply(404) /\ UNCHANGED procs
         ELSE IF ExistingConnection(conns, me, userId) # {} THEN
           /\ req' = r /\ res' = Reply(400) /\ UNCHANGED procs
         ELSE
           /\ MayStart
           /\ Len(conns) + Cardinality(InProgress) < MaxConns
           /\ procs' = [procs EXCEPT ![p] = [pc |-> "save", req |-> r]]
           /\ UNCHANGED <<req, res>>

\* await connection.save(): the insert, refused by the unique index
RequestSave(p) ==
  /\ procs[p].pc = "save"
  /\ procs[p].req.op = "PostRequest"
  /\ UNCHANGED <<userVars, posts, jobs, notifications, msgVars, envVars,
               answered>>
  /\ LET r == procs[p].req
         doc == Connection(r.me, r.userId, Trim(r.message))
     IN  IF ~ UniqueIndexAllows(conns, doc) THEN
           /\ req' = r /\ res' = Reply(500)
           /\ procs' = [procs EXCEPT ![p] = Idle]
           /\ UNCHANGED conns
         ELSE
           /\ conns' = Append(conns, doc)
           /\ procs' = [procs EXCEPT ![p].pc = "notify"]
           /\ UNCHANGED <<req, res>>

\* await new Notification({...}).save() and the 201 response
RequestNotify(p) ==
  /\ procs[p].pc = "notify"
  /\ procs[p].req.op = "PostRequest"
  /\ UNCHANGED <<userVars, conns, posts, jobs, msgVars, envVars, answered>>
  /\ LET r == procs[p].req
     IN  /\ notifications' = SaveNotification(
              Notification(r.userId, r.me, "connection_request",
                           None, None, r.me))
         /\ req' = r /\ res' = AfterNotify(201)
         /\ procs' = [procs EXCEPT ![p] = Idle]

\* router.put('/request/:id/:action') up to connection.save(): the check
\* of the action, Connection.findById and the checks of the loaded document
ProcessFind(p, me, id, action) ==
  /\ procs[p] = Idle
  /\ UNCHANGED <<userVars, conns, posts, jobs, notifications, msgVars,
                 envVars, answered>>
  /\ LET r == [op |-> "PutRequestAction", me |-> me, id |-> id,
               action |-> action]
     IN  IF action \notin {"accept", "decline"} THEN
           /\ req' = r /\ res' = Reply(400) /\ UNCHANGED procs
         ELSE IF id \notin 1..Len(conns) THEN
           /\ req' = r /\ res' = Reply(404) /\ UNCHANGED procs
         ELSE IF ~ IsRecipient(conns[id], me) THEN
           /\ req' = r /\ res' = Reply(403) /\ UNCHANGED procs
         ELSE IF ~ IsPending(conns[id]) THEN
           /\ req' = r /\ res' = Reply(400) /\ UNCHANGED procs
         ELSE
           /\ MayStart
           /\ procs' = [procs EXCEPT ![p] =
                          [pc |-> "status", req |-> r,
                           connection |-> conns[id]]]
           /\ UNCHANGED <<req, res>>

\* connection.status = ...; await connection.save(): the $set of status,
\* and the response of a decline
ProcessSave(p) ==
  /\ procs[p].pc = "status"
  /\ UNCHANGED <<userVars, posts, jobs, notifications, msgVars, envVars,
                 answered>>
  /\ LET r == procs[p].req
     IN  IF r.action = "accept" THEN
           /\ conns' = [conns EXCEPT ![r.id].status = "accepted"]
           /\ procs' = [procs EXCEPT ![p].pc = "requester"]
           /\ UNCHANGED <<req, res>>
         ELSE
           /\ conns' = [conns EXCEPT ![r.id].status = "declined"]
           /\ req' = r /\ res' = Reply(200)
           /\ procs' = [procs EXCEPT ![p] = Idle]

\* await User.findByIdAndUpdate(connection.requester, {$addToSet: ...})
AcceptRequester(p) ==
  /\ procs[p].pc = "requester"
  /\ UNCHANGED <<admins, following, followers, profiles, oid, conns, posts,
                 jobs, notifications, msgVars, envVars, answered, req, res>>
  /\ LET doc == procs[p].connection
     IN  connections' = [connections EXCEPT ![doc.requester] =
                           AddToSet(@, doc.recipient)]
  /\ procs' = [procs EXCEPT ![p].pc = "recipient"]

\* await User.findByIdAndUpdate(connection.recipient, {$addToSet: ...})
AcceptRecipient(p) ==
  /\ procs[p].pc = "recipient"
  /\ UNCHANGED <<admins, following, followers, profiles, oid, conns, posts,
                 jobs, notifications, msgVars, envVars, answered, req, res>>
  /\ LET doc == procs[p].connection
     IN  connections' = [connections EXCEPT ![doc.recipient] =
                           AddToSet(@, doc.requester)]
  /\ procs' = [procs EXCEPT ![p].pc = "accepted"]

\* await new Notification({...}).save() and the response of an accept
AcceptNotify(p) ==
  /\ procs[p].pc = "accepted"
  /\ UNCHANGED <<userVars, conns, posts, jobs, msgVars, envVars, answered>>
  /\ LET r == procs[p].req
     IN  /\ notifications' = SaveNotification(
              Notification(procs[p].connection.requester, r.me,
                           "connection_accepted", None, None, r.me))
         /\ req' = r /\ res' = AfterNotify(200)
         /\ procs' = [procs EXCEPT ![p] = Idle]

\* router.delete('/:userId'): the $pull from the requester's connections
RemoveMine(p, me, userId) ==
  /\ procs[p] = Idle
  /\ UNCHANGED <<admins, following, followers, profiles, oid, conns, posts,
                 jobs, notifications, msgVars, envVars, answered, req, res>>
  /\ connections' = PullConnection(connections, me, userId)
  /\ procs' = [procs EXCEPT ![p] =
                 [pc |-> "other",
                  req |-> [op |-> "DeleteConnection", me |-> me,
                           userId |-> userId]]]

\* await User.findByIdAndUpdate(userId, {$pull: {connections: me}})
RemoveOther(p) ==
  /\ procs[p].pc = "other"
  /\ UNCHANGED <<admins, following, followers, profiles, oid, conns, posts,
                 jobs, notifications, msgVars, envVars, answered, req, res>>
  /\ connections' = PullConnection(connections, procs[p].req.userId,
                                   procs[p].req.me)
  /\ procs' = [procs EXCEPT ![p].pc = "decline"]

\* await Connection.findOneAndUpdate(...) and the response of a remove
RemoveDecline(p) ==
  /\ procs[p].pc = "decline"
  /\ UNCHANGED <<userVars, posts, jobs, notifications, msgVars, envVars,
                 answered>>
  /\ conns' = DeclineAccepted(conns, procs[p].req.me, procs[p].req.userId)
  /\ req' = procs[p].req /\ res' = Reply(200)
  /\ procs' = [procs EXCEPT ![p] = Idle]

\* router.post('/:id/follow') up to the first update: the self check,
\* User.findById and the test of the loaded followers
FollowFind(p, me, id) ==
  /\ procs[p] = Idle
  /\ UNCHANGED <<userVars, conns, posts, jobs, notifications, msgVars,
                 envVars, answered>>
  /\ LET r == [op |-> "ToggleFollow", me |-> me, id |-> id]
     IN  IF id = me THEN
           /\ req' = r /\ res' = Reply(400) /\ UNCHANGED procs
         ELSE IF id \notin Users THEN
           /\ req' = r /\ res' = Reply(404) /\ UNCHANGED procs
         ELSE
           /\ procs' = [procs EXCEPT ![p] =
                          [pc |-> "target", req |-> r,
                           isFollowing |-> IsFollowing(id, me)]]
           /\ UNCHANGED <<req, res>>

\* await User.findByIdAndUpdate(req.params.id, {$pull or $addToSet:
\* {followers: req.user._id}})
FollowTarget(p) ==
  /\ procs[p].pc = "target"
  /\ UNCHANGED <<admins, connections, following, profiles, oid, conns,
                 posts, jobs, notifications, msgVars, envVars, answered,
                 req, res>>
  /\ LET r == procs[p].req
     IN  followers' = [followers EXCEPT ![r.id] =
                         IF procs[p].isFollowing THEN Without(@, r.me)
                         ELSE AddToSet(@, r.me)]
  /\ procs' = [procs EXCEPT ![p].pc = "mine"]

\* await User.findByIdAndUpdate(req.user._id, {$pull or $addToSet:
\* {following: req.params.id}}) and the response
FollowMine(p) ==
  /\ procs[p].pc = "mine"
  /\ UNCHANGED <<admins, connections, followers, profiles, oid, conns,
                 posts, jobs, notifications, msgVars, envVars, answered>>
  /\ LET r == procs[p].req
     IN  /\ following' = [following EXCEPT ![r.me] =
                            IF procs[p].isFollowing THEN Without(@, r.id)
                            ELSE AddToSet(@, r.id)]
         /\ req' = r
         /\ res' = [status |-> 200, isFollowing |-> ~ procs[p].isFollowing]
  /\ procs' = [procs EXCEPT ![p] = Idle]

\* router.post('/:id/like') up to post.save(): Post.findById
LikeFind(p, me, id) ==
  /\ procs[p] = Idle
  /\ UNCHANGED <<userVars, conns, posts, jobs, notifications, msgVars, envVars,
                 answered>>
  /\ LET r == [op |-> "PostLike", me |-> me, id |-> id]
     IN  IF ~ Exists(posts, id) THEN
           /\ req' = r /\ res' = Reply(404) /\ UNCHANGED procs
         ELSE
           /\ MayStart
           /\ posts[id].v + Cardinality(InProgress) < MaxVersion
           /\ procs' = [procs EXCEPT ![p] =
                          [pc |-> "save", req |-> r, post |-> posts[id]]]
           /\ UNCHANGED <<req, res>>

\* isLiked, the change of the copy and await post.save(); the unlike
\* branch and a like of one's own post answer right after the save
LikeSave(p) ==
  /\ procs[p].pc = "save"
  /\ procs[p].req.op = "PostLike"
  /\ UNCHANGED <<userVars, conns, jobs, notifications, msgVars, envVars>>
  /\ LET r == procs[p].req
         post == procs[p].post
         isLiked == Includes(post.likes, r.me)
         saved == SavePost(posts, r.id, post, LikeOp(post, r.me))
     IN  IF ~ saved.ok THEN
           /\ req' = r /\ res' = Reply(500)
           /\ procs' = [procs EXCEPT ![p] = Idle]
           /\ UNCHANGED <<posts, answered>>
         ELSE IF ~ isLiked /\ NotSelf(post, r.me) THEN
           /\ posts' = saved.coll
           /\ procs' = [procs EXCEPT ![p].pc = "notify"]
           /\ UNCHANGED <<req, res, answered>>
         ELSE
           /\ posts' = saved.coll
           /\ req' = r /\ res' = Reply(200)
           /\ answered' = Append(answered, r)
           /\ procs' = [procs EXCEPT ![p] = Idle]

\* await new Notification({...}).save() and the response of the like branch
LikeNotify(p) ==
  /\ procs[p].pc = "notify"
  /\ procs[p].req.op = "PostLike"
  /\ UNCHANGED <<userVars, conns, posts, jobs, msgVars, envVars>>
  /\ LET r == procs[p].req
     IN  /\ notifications' = SaveNotification(
              Notification(procs[p].post.author, r.me, "post_like",
                           r.id, None, None))
         /\ req' = r /\ res' = AfterNotify(200)
         /\ answered' = IF notifyFails THEN answered ELSE Append(answered, r)
         /\ procs' = [procs EXCEPT ![p] = Idle]

\* router.post('/:id/comment') up to post.save(): the content check and
\* Post.findById
CommentFind(p, me, id, content) ==
  /\ procs[p] = Idle
  /\ UNCHANGED <<userVars, conns, posts, jobs, notifications, msgVars,
                 envVars, answered>>
  /\ LET r == [op |-> "PostComment", me |-> me, id |-> id,
               content |-> content]
     IN  IF Trim(content) = <<>> THEN
           /\ req' = r /\ res' = Reply(400) /\ UNCHANGED procs
         ELSE IF ~ Exists(posts, id) THEN
           /\ req' = r /\ res' = Reply(404) /\ UNCHANGED procs
         ELSE
           /\ MayStart
           /\ posts[id].v + Cardinality(InProgress) < MaxVersion
           /\ procs' = [procs EXCEPT ![p] =
                          [pc |-> "save", req |-> r, post |-> posts[id]]]
           /\ UNCHANGED <<req, res>>

\* post.comments.push(newComment) and await post.save(); a comment on
\* one's own post is answered after the save (the second findById changes
\* nothing)
CommentSave(p) ==
  /\ procs[p].pc = "save"
  /\ procs[p].req.op = "PostComment"
  /\ UNCHANGED <<userVars, conns, jobs, notifications, msgVars, envVars,
                 answered>>
  /\ LET r == procs[p].req
         post == procs[p].post
         newComment == [user |-> r.me, content |-> Trim(r.content)]
         saved == SavePost(posts, r.id, post, Push("comments", newComment))
     IN  IF ~ saved.ok THEN
           /\ req' = r /\ res' = Reply(500)
           /\ procs' = [procs EXCEPT ![p] = Idle]
           /\ UNCHANGED posts
         ELSE IF NotSelf(post, r.me) THEN
           /\ posts' = saved.coll
           /\ procs' = [procs EXCEPT ![p].pc = "notify"]
           /\ UNCHANGED <<req, res>>
         ELSE
           /\ posts' = saved.coll
           /\ req' = r /\ res' = Reply(200)
           /\ procs' = [procs EXCEPT ![p] = Idle]

\* await new Notification({...}).save() and the response of comment
CommentNotify(p) ==
  /\ procs[p].pc = "notify"
  /\ procs[p].req.op = "PostComment"
  /\ UNCHANGED <<userVars, conns, posts, jobs, msgVars, envVars, answered>>
  /\ LET r == procs[p].req
     IN  /\ notifications' = SaveNotification(
              Notification(procs[p].post.author, r.me, "post_comment",
                           r.id, None, None))
         /\ req' = r /\ res' = AfterNotify(200)
         /\ procs' = [procs EXCEPT ![p] = Idle]

\* router.post('/:id/apply') up to job.save(): Job.findById, the isActive
\* check and the search for an application of the requester
ApplyFind(p, me, id) ==
  /\ procs[p] = Idle
  /\ UNCHANGED <<userVars, conns, posts, jobs, notifications, msgVars,
                 envVars, answered>>
  /\ LET r == [op |-> "ApplyJob", me |-> me, id |-> id]
     IN  IF ~ Exists(jobs, id) THEN
           /\ req' = r /\ res' = Reply(404) /\ UNCHANGED procs
         ELSE IF ~ jobs[id].isActive \/ ExistingApplication(jobs[id], me) THEN
           /\ req' = r /\ res' = Reply(400) /\ UNCHANGED procs
         ELSE
           /\ MayStart
           /\ procs' = [procs EXCEPT ![p] =
                          [pc |-> "save", req |-> r, job |-> jobs[id]]]
           /\ UNCHANGED <<req, res>>

\* job.applications.push({...}) and await job.save()
ApplySave(p) ==
  /\ procs[p].pc = "save"
  /\ procs[p].req.op = "ApplyJob"
  /\ UNCHANGED <<userVars, conns, posts, notifications, msgVars, envVars,
                 answered>>
  /\ LET r == procs[p].req
         saved == SaveJob(jobs, r.id, procs[p].job,
                    Push("applications",
                         [applicant |-> r.me, status |-> "applied"]))
     IN  IF ~ saved.ok THEN
           /\ req' = r /\ res' = Reply(500)
           /\ procs' = [procs EXCEPT ![p] = Idle]
           /\ UNCHANGED jobs
         ELSE
           /\ jobs' = saved.coll
           /\ procs' = [procs EXCEPT ![p].pc = "notify"]
           /\ UNCHANGED <<req, res>>

\* await new Notification({...}).save() and the response of apply
ApplyNotify(p) ==
  /\ procs[p].pc = "notify"
  /\ procs[p].req.op = "ApplyJob"
  /\ UNCHANGED <<userVars, conns, posts, jobs, msgVars, envVars, answered>>
  /\ LET r == procs[p].req
     IN  /\ notifications' = SaveNotification(
              Notification(procs[p].job.poster, r.me, "job_match",
                           None, r.id, r.me))
         /\ req' = r /\ res' = AfterNotify(200)
         /\ procs' = [procs EXCEPT ![p] = Idle]

\* ------------------------------------------------------------------------
\* Specifications
\* ------------------------------------------------------------------------
Base ==
  /\ admins = {"u3"}
  /\ connections = [u \in Users |-> <<>>]
  /\ following = [u \in Users |-> <<>>]
  /\ followers = [u \in Users |-> <<>>]
  /\ profiles = [u \in Users |-> Profile(u)]
  /\ conns = <<>>
  /\ posts = <<>>
  /\ jobs = <<>>
  /\ notifications = <<>>
  /\ hooked = {}
  /\ messages = <<>>
  /\ clock = 1
  /\ listed = <<>>
  /\ sockets = <<>>
  /\ activeUsers = <<>>
  /\ emitted = <<>>
  /\ notifyFails = FALSE
  /\ procs = [p \in Procs |-> Idle]
  /\ answered = <<>>
  /\ fetched = <<>>
  /\ req = [op |-> None]
  /\ res = Reply(0)

Init ==
  /\ Base
  /\ oid = [u \in Users |->
             [i \in 1..IdLen |-> IF u = "u1" \/ (u = "u2" /\ i = IdLen)
                                 THEN 48 ELSE 97]]

\* Any assignment of distinct ids to the accounts
InitConv ==
  /\ Base
  /\ oid \in [Users -> IdStrings]
  /\ \A u, w \in Users : u # w => oid[u] # oid[w]

NextConn ==
  \/ \E me \in Users, userId \in Users \cup {GhostId, NoId} :
       PostRequest(me, userId, NoMessage)
  \/ \E me \in Users, id \in 1..(Len(conns) + 1),
        action \in {"accept", "decline", "block"} :
       PutRequestAction(me, id, action)
  \/ \E me \in Users, userId \in Users \cup {GhostId} :
       DeleteConnection(me, userId)

SpecConn == Init /\ [][NextConn]_vars

\* Connection requests with a message, their processing and the list of
\* received requests
NextReceived ==
  \/ \E me \in Users, userId \in Users, message \in Contents :
       PostRequest(me, userId, message)
  \/ \E me \in Users, id \in 1..Len(conns), action \in {"accept", "decline"} :
       PutRequestAction(me, id, action)
  \/ \E me \in Users : GetReceived(me)

SpecReceived == Init /\ [][NextReceived]_vars

NextPost ==
  \/ /\ Len(posts) < MaxPosts
     /\ \E me \in Users, content \in Contents : CreatePost(me, content)
  \/ \E me \in Users, id \in 1..(Len(posts) + 1) : PostLike(me, id)
  \/ \E me \in Users, id \in 1..(Len(posts) + 1), content \in Contents :
       PostComment(me, id, content)
  \/ \E me \in Users, id \in 1..(Len(posts) + 1) : PostShare(me, id)
  \/ \E me \in Users, id \in 1..(Len(posts) + 1) : DeletePost(me, id)

SpecPost == Init /\ [][NextPost]_vars

NextJob ==
  \/ \E me \in Users, body \in JobBodies : CreateJob(me, body)
  \/ \E me \in Users, id \in 1..(Len(jobs) + 1) : ApplyJob(me, id)
  \/ \E me \in Users, id \in 1..(Len(jobs) + 1), body \in JobUpdates :
       PutJob(me, id, body)
  \/ \E me \in Users, id \in 1..(Len(jobs) + 1) : DeleteJob(me, id)

SpecJob == Init /\ [][NextJob]_vars

NextOwner ==
  \/ /\ Len(posts) < MaxPosts
     /\ \E me \in Users, content \in Contents : CreatePost(me, content)
  \/ \E me \in Users, id \in 1..(Len(posts) + 1) : DeletePost(me, id)
  \/ \E me \in Users, body \in JobBodies : CreateJob(me, body)
  \/ \E me \in Users, id \in 1..(Len(jobs) + 1), body \in JobUpdates :
       PutJob(me, id, body)
  \/ \E me \in Users, id \in 1..(Len(jobs) + 1) : DeleteJob(me, id)

SpecOwner == Init /\ [][NextOwner]_vars

\* The values postSchema.visibility admits
Visibilities == {"public", "connections", "private"}

\* Comment arrays that put a post just below and at the trending score
CommentArrays ==
  {[i \in 1..n |-> [user |-> "u2", content |-> <<"a">>]] :
     n \in {0, TrendingScore - 1, TrendingScore}}

\* Stored posts: any author and visibility, the score as the hook left it
StoredPosts ==
  {PreSavePost([Post(a, <<"a">>) EXCEPT !.visibility = vis,
                                        !.comments = c, !.v = 1]) :
     a \in Users, vis \in Visibilities, c \in CommentArrays}

\* A store with at most one post, u1 connected with u2 or not, u1 following
\* u3 or not
InitFeed ==
  /\ admins = {"u3"}
  /\ \E linked \in BOOLEAN :
       connections = [u \in Users |->
                        IF linked /\ u = "u1" THEN <<"u2">>
                        ELSE IF linked /\ u = "u2" THEN <<"u1">>
                        ELSE <<>>]
  /\ \E follows \in BOOLEAN :
       /\ following = [u \in Users |->
                         IF follows /\ u = "u1" THEN <<"u3">> ELSE <<>>]
       /\ followers = [u \in Users |->
                         IF follows /\ u = "u3" THEN <<"u1">> ELSE <<>>]
  /\ profiles = [u \in Users |-> Profile(u)]
  /\ posts \in {<<>>} \cup {<<d>> : d \in StoredPosts}
  /\ conns = <<>>
  /\ jobs = <<>>
  /\ notifications = <<>>
  /\ hooked = {}
  /\ messages = <<>>
  /\ clock = 1
  /\ listed = <<>>
  /\ sockets = <<>>
  /\ activeUsers = <<>>
  /\ emitted = <<>>
  /\ notifyFails = FALSE
  /\ procs = [p \in Procs |-> Idle]
  /\ answered = <<>>
  /\ fetched = <<>>
  /\ req = [op |-> None]
  /\ res = Reply(0)
  /\ oid = [u \in Users |->
             [i \in 1..IdLen |-> IF u = "u1" \/ (u = "u2" /\ i = IdLen)
                                 THEN 48 ELSE 97]]

NextFeed ==
  \/ /\ Len(posts) < MaxFeedPosts
     /\ \E me \in Users, content \in Contents : CreatePost(me, content)
  \/ \E me \in Users, page \in 1..MaxPage, limit \in {1, DefaultLimit} :
       GetFeed(me, page, limit)
  \/ \E me \in Users, id \in 1..Len(posts) : DeletePost(me, id)

SpecFeed == InitFeed /\ [][NextFeed]_vars

NextConv ==
  \/ \E me \in Users, recipient \in Users : HookNewMessage(me, recipient)
  \/ \E doc \in hooked : HookSavedMessage(doc)
  \/ \E me \in Users, userId \in IdStrings : GetConversation(me, userId)

SpecConv == InitConv /\ [][NextConv]_vars

\* The send-message and fetch-conversation routes
NextMsg ==
  \/ \E me \in Users, recipient \in Users \cup {GhostId, NoId},
        content \in {<<>>, <<"a">>} :
       SendMessage(me, recipient, content)
  \/ \E me \in Users, userId \in IdStrings : GetConversation(me, userId)

SpecMsg == Init /\ [][NextMsg]_vars

\* The six routes that write a notification after their own write, with a
\* Notification collection that may refuse writes
NextFail ==
  \/ \E b \in BOOLEAN : SetNotifyFails(b)
  \/ /\ Len(posts) < MaxPosts
     /\ CreatePost("u1", <<"a">>)
  \/ \E me \in {"u1", "u2"}, id \in 1..Len(posts) : PostLike(me, id)
  \/ \E id \in 1..Len(posts) : PostComment("u2", id, <<"a">>)
  \/ \E id \in 1..Len(posts) : PostShare("u2", id)
  \/ CreateJob("u1", [title |-> "t", isActive |-> None])
  \/ \E id \in 1..Len(jobs) : ApplyJob("u2", id)
  \/ PostRequest("u2", "u1", NoMessage)
  \/ \E id \in 1..Len(conns) : PutRequestAction("u1", id, "accept")

SpecFail == Init /\ [][NextFail]_vars

NextSock ==
  \/ Connect
  \/ \E socket \in 1..MaxSockets, userId \in Users : JoinUser(socket, userId)
  \/ \E socket \in 1..MaxSockets, receiverId \in Users \cup {GhostId},
        message \in Payloads :
       SocketSend(socket, receiverId, message)
  \/ \E socket \in 1..MaxSockets : Disconnect(socket)

SpecSock == Init /\ [][NextSock]_vars

\* Connection requests and their acceptance, which write notifications, and
\* the DELETE requests of the notifications router
NextNotif ==
  \/ \E me \in Users, userId \in Users : PostRequest(me, userId, NoMessage)
  \/ \E me \in Users, id \in 1..Len(conns) :
       PutRequestAction(me, id, "accept")
  \/ \E me \in Users,
        path \in {<<>>, <<Lit("clear-all")>>}
                  \cup {<<IdString(n)>> : n \in 1..(Len(notifications) + 1)} :
       NotificationsDelete(me, path)

SpecNotif == Init /\ [][NextNotif]_vars

\* Job creation and application with the two routes that list applications
NextApps ==
  \/ \E me \in Users : CreateJob(me, [title |-> "t", isActive |-> None])
  \/ \E me \in Users, id \in 1..Len(jobs) : ApplyJob(me, id)
  \/ \E me \in Users,
        path \in {<<Lit("my"), Lit("applications")>>,
                  <<Lit("my"), Lit("jobs")>>}
                  \cup {<<IdString(n), Lit("applications")>> :
                          n \in 1..(Len(jobs) + 1)} :
       JobsGet(me, path)

SpecApps == Init /\ [][NextApps]_vars

\* The status values update-application-status is asked for: three of the
\* valid ones, one the enum does not hold, and none
StatusInputs == {"applied", "reviewing", "hired", "accepted", None}

\* Job creation and application with the updates of application status
NextStatus ==
  \/ \E me \in Users : CreateJob(me, [title |-> "t", isActive |-> None])
  \/ \E me \in Users, id \in 1..Len(jobs) : ApplyJob(me, id)
  \/ \E me \in Users, jobId \in 1..(Len(jobs) + 1),
        applicationId \in 1..Cardinality(Users), status \in StatusInputs :
       PutApplication(me, jobId, applicationId, status)

SpecStatus == Init /\ [][NextStatus]_vars

\* Stored messages between two accounts, read at time 1 or not yet read
StoredMessages ==
  {[PreSaveMessage(Message(a, b, <<"a">>)) EXCEPT !.readAt = t] :
     a \in Users, b \in Users \ {"u3"}, t \in {NoDate, 1}}

\* The conversation ids of the pairs of accounts
ConversationIds ==
  {Join(Sort(IdToString(a), IdToString(b))) : a, b \in Users}

\* A store that holds up to MaxMessages messages
InitRead ==
  /\ oid = [u \in Users |->
             [i \in 1..IdLen |-> IF u = "u1" \/ (u = "u2" /\ i = IdLen)
                                 THEN 48 ELSE 97]]
  /\ admins = {"u3"}
  /\ connections = [u \in Users |-> <<>>]
  /\ following = [u \in Users |-> <<>>]
  /\ followers = [u \in Users |-> <<>>]
  /\ profiles = [u \in Users |-> Profile(u)]
  /\ conns = <<>>
  /\ posts = <<>>
  /\ jobs = <<>>
  /\ notifications = <<>>
  /\ hooked = {}
  /\ \E n \in 0..MaxMessages : messages \in [1..n -> StoredMessages]
  /\ clock = 1
  /\ listed = <<>>
  /\ sockets = <<>>
  /\ activeUsers = <<>>
  /\ emitted = <<>>
  /\ notifyFails = FALSE
  /\ procs = [p \in Procs |-> Idle]
  /\ answered = <<>>
  /\ fetched = <<>>
  /\ req = [op |-> None]
  /\ res = Reply(0)

\* The two routes that mark messages read, at successive times
NextRead ==
  \/ Tick
  \/ \E me \in Users, other \in Users : GetConversation(me, IdToString(other))
  \/ \E me \in Users, conversationId \in ConversationIds :
       PutRead(me, conversationId)

SpecRead == InitRead /\ [][NextRead]_vars

\* Connection requests whose steps interleave
NextConcConn ==
  \/ \E p \in Procs, me \in Users, userId \in Users \cup {GhostId, NoId} :
       RequestFind(p, me, userId, NoMessage)
  \/ \E p \in Procs : RequestSave(p)
  \/ \E p \in Procs : RequestNotify(p)
  \/ \E me \in Users, id \in 1..Len(conns) :
       PutRequestAction(me, id, "accept")
  \/ \E me \in Users, userId \in Users : DeleteConnection(me, userId)

SpecConcConn == Init /\ [][NextConcConn]_vars

\* Requests between u1 and u2, with accept, decline and remove handlers
\* whose steps interleave
Pair == {"u1", "u2"}

NextConcAccept ==
  \/ \E me \in Pair, userId \in Pair : PostRequest(me, userId, NoMessage)
  \/ \E p \in Procs, me \in Pair, id \in 1..Len(conns),
        action \in {"accept", "decline"} :
       ProcessFind(p, me, id, action)
  \/ \E p \in Procs : ProcessSave(p)
  \/ \E p \in Procs : AcceptRequester(p)
  \/ \E p \in Procs : AcceptRecipient(p)
  \/ \E p \in Procs : AcceptNotify(p)
  \/ \E p \in Procs, me \in Pair, userId \in Pair :
       RemoveMine(p, me, userId)
  \/ \E p \in Procs : RemoveOther(p)
  \/ \E p \in Procs : RemoveDecline(p)

SpecConcAccept == Init /\ [][NextConcAccept]_vars

\* Follow toggles, one handler at a time
NextFollow ==
  \E me \in Users, id \in Users \cup {GhostId} : ToggleFollow(me, id)

SpecFollow == Init /\ [][NextFollow]_vars

\* Follow toggles between u1 and u2 whose steps interleave
NextConcFollow ==
  \/ \E p \in Procs, me \in Pair, id \in Pair \cup {GhostId} :
       FollowFind(p, me, id)
  \/ \E p \in Procs : FollowTarget(p)
  \/ \E p \in Procs : FollowMine(p)

SpecConcFollow == Init /\ [][NextConcFollow]_vars

\* Profile updates
NextProfile ==
  \E me \in Users, body \in ProfileBodies : PutProfile(me, body)

SpecProfile == Init /\ [][NextProfile]_vars

\* Like and comment requests whose steps interleave
NextConcPost ==
  \/ /\ Len(posts) < MaxPosts
     /\ \E me \in Users, content \in Contents : CreatePost(me, content)
  \/ \E p \in Procs, me \in Users, id \in 1..(Len(posts) + 1) :
       LikeFind(p, me, id)
  \/ \E p \in Procs : LikeSave(p)
  \/ \E p \in Procs : LikeNotify(p)
  \/ \E p \in Procs, me \in Users, id \in 1..(Len(posts) + 1) :
       CommentFind(p, me, id, <<"a">>)
  \/ \E p \in Procs : CommentSave(p)
  \/ \E p \in Procs : CommentNotify(p)

SpecConcPost == Init /\ [][NextConcPost]_vars

\* Job applications whose steps interleave
NextConcJob ==
  \/ \E me \in Users, body \in JobBodies : CreateJob(me, body)
  \/ \E p \in Procs, me \in Users, id \in 1..(Len(jobs) + 1) :
       ApplyFind(p, me, id)
  \/ \E p \in Procs : ApplySave(p)
  \/ \E p \in Procs : ApplyNotify(p)
  \/ \E me \in Users, id \in 1..Len(jobs) : DeleteJob(me, id)

SpecConcJob == Init /\ [][NextConcJob]_vars

\* ========================================================================
\* Properties
\* ========================================================================

\* The Connection documents between accounts a and b, in either direction
Between(coll, a, b) ==
  {i \in 1..Len(coll) : {coll[i].requester, coll[i].recipient} = {a, b}}

\* C1: a connection request from A to B is answered 400 and creates no
\* Connection document and no notification whenever a Connection document
\* between A and B exists, in either direction and with any status.
C1_DuplicateRequestRejected ==
  [][(/\ req'.op = "PostRequest"
      /\ req'.userId \in Users
      /\ req'.userId # req'.me
      /\ Between(conns, req'.me, req'.userId) # {})
     => (/\ res'.status = 400
         /\ conns' = conns
         /\ notifications' = notifications)]_vars

\* C1 witness: a request was rejected because a declined request in the
\* opposite direction is stored.
C1_Witness ==
  /\ req.op = "PostRequest"
  /\ res.status = 400
  /\ \E i \in 1..Len(conns) :
       /\ conns[i].requester = req.userId
       /\ conns[i].recipient = req.me
       /\ conns[i].status = "declined"

\* C2: when the recipient accepts a pending request, the document becomes
\* accepted and each of the two accounts lists the other exactly once.
C2_AcceptIsSymmetric ==
  [][(/\ req'.op = "PutRequestAction"
      /\ req'.action = "accept"
      /\ req'.id \in 1..Len(conns)
      /\ conns[req'.id].recipient = req'.me
      /\ conns[req'.id].status = "pending")
     => (/\ res'.status = 200
         /\ conns'[req'.id].status = "accepted"
         /\ Count(connections'[conns[req'.id].requester], req'.me) = 1
         /\ Count(connections'[req'.me], conns[req'.id].requester) = 1)]_vars

\* C2 witness: an accept was answered with success and both accounts list
\* each other.
C2_Witness ==
  /\ req.op = "PutRequestAction"
  /\ req.action = "accept"
  /\ res.status = 200
  /\ conns[req.id].status = "accepted"
  /\ Includes(connections[req.me], conns[req.id].requester)
  /\ Includes(connections[conns[req.id].requester], req.me)

\* C4: executed one after another, each like request on a post toggles the
\* requester's membership in the like array and changes its length by one,
\* and no account id is ever in the array twice; so like, unlike, like from
\* not-liked ends liked once, with one like more than at the start.
C4_LikeToggles ==
  [][(req'.op = "PostLike" /\ Exists(posts, req'.id))
     => (/\ res'.status = 200
         /\ \A u \in Users : Count(posts'[req'.id].likes, u) <= 1
         /\ IF Includes(posts[req'.id].likes, req'.me)
            THEN /\ Count(posts'[req'.id].likes, req'.me) = 0
                 /\ Len(posts'[req'.id].likes) =
                      Len(posts[req'.id].likes) - 1
            ELSE /\ Count(posts'[req'.id].likes, req'.me) = 1
                 /\ Len(posts'[req'.id].likes) =
                      Len(posts[req'.id].likes) + 1)]_vars

\* C4 witness: three saves of likes only, two of them likes by the
\* requester (two post_like notifications), and the requester is in the
\* array once: like, unlike, like.
C4_Witness ==
  /\ req.op = "PostLike"
  /\ res.status = 200
  /\ Exists(posts, req.id)
  /\ posts[req.id].v = 3
  /\ posts[req.id].likes = <<req.me>>
  /\ posts[req.id].comments = <<>>
  /\ posts[req.id].shares = <<>>
  /\ Len(notifications) = 2
  /\ \A i \in 1..2 : /\ notifications[i].type = "post_like"
                     /\ notifications[i].sender = req.me

\* C6: with the operations executed one at a time, every stored post has
\* engagementScore = likes.length + comments.length + 2 * shares.length.
C6_EngagementScore ==
  \A id \in 1..Len(posts) :
    posts[id] # Deleted =>
      posts[id].engagementScore =
        Len(posts[id].likes) + Len(posts[id].comments)
          + 2 * Len(posts[id].shares)

\* C6 witness: a post that was liked, commented and shared.
C6_Witness ==
  \E id \in 1..Len(posts) :
    /\ posts[id] # Deleted
    /\ Len(posts[id].likes) = 1
    /\ Len(posts[id].comments) = 1
    /\ Len(posts[id].shares) = 1
    /\ posts[id].engagementScore = 4

\* The notification type of each engagement route
TypeOf(op) ==
  IF op = "PostLike" THEN "post_like"
  ELSE IF op = "PostComment" THEN "post_comment" ELSE "post_share"

\* C10: a successful like, comment or share by an account other than the
\* author appends exactly one notification (recipient the author, sender
\* the requester, relatedPost the post, type by route); a like, comment or
\* share of one's own post, an unlike and every rejected request append
\* none.
C10_OneNotificationPerAction ==
  [][(req'.op \in {"PostLike", "PostComment", "PostShare"})
     => IF /\ res'.status = 200
           /\ posts[req'.id].author # req'.me
           /\ (req'.op = "PostLike"
                 => ~ Includes(posts[req'.id].likes, req'.me))
        THEN /\ Len(notifications') = Len(notifications) + 1
             /\ SubSeq(notifications', 1, Len(notifications))
                  = notifications
             /\ LET n == notifications'[Len(notifications')]
                IN  /\ n.recipient = posts[req'.id].author
                    /\ n.sender = req'.me
                    /\ n.type = TypeOf(req'.op)
                    /\ n.relatedPost = req'.id
        ELSE notifications' = notifications]_vars

\* C10 witness: a share of another account's post was answered with
\* success and its notification is the last one stored.
C10_Witness ==
  /\ req.op = "PostShare"
  /\ res.status = 200
  /\ Exists(posts, req.id)
  /\ posts[req.id].author # req.me
  /\ Len(notifications) > 0
  /\ notifications[Len(notifications)].type = "post_share"
  /\ notifications[Len(notifications)].sender = req.me
  /\ notifications[Len(notifications)].recipient = posts[req.id].author

\* C7: apply-to-job is answered 400, leaves the job's application list as
\* it was and creates no notification when the job is inactive or already
\* holds an application by the requester.
C7_ApplyRejected ==
  [][(/\ req'.op = "ApplyJob"
      /\ Exists(jobs, req'.id)
      /\ \/ ~ jobs[req'.id].isActive
         \/ \E i \in 1..Len(jobs[req'.id].applications) :
              jobs[req'.id].applications[i].applicant = req'.me)
     => (/\ res'.status = 400
         /\ jobs'[req'.id].applications = jobs[req'.id].applications
         /\ jobs' = jobs
         /\ notifications' = notifications)]_vars

\* C7 witness: an application to an inactive job, by an account that has
\* not applied, was answered 400.
C7_Witness ==
  /\ req.op = "ApplyJob"
  /\ res.status = 400
  /\ Exists(jobs, req.id)
  /\ ~ jobs[req.id].isActive
  /\ \A i \in 1..Len(jobs[req.id].applications) :
       jobs[req.id].applications[i].applicant # req.me

\* C7 second case reached: a repeated application to an active job was
\* answered 400.
C7_WitnessTwice ==
  /\ req.op = "ApplyJob"
  /\ res.status = 400
  /\ Exists(jobs, req.id)
  /\ jobs[req.id].isActive
  /\ Len(jobs[req.id].applications) = 2
  /\ jobs[req.id].applications[2].applicant = req.me

\* C9: a delete-post request deletes the post when the requester is its
\* author or an admin, a delete-job request deletes the job when the
\* requester is its poster or an admin, an update-job request changes the
\* job only for its poster; any other requester is answered 403 and the
\* document is unchanged; and no post or job is deleted by any other step.
C9_OwnershipGates ==
  [][/\ (req'.op = "DeletePost" /\ Exists(posts, req'.id))
          => IF posts[req'.id].author = req'.me \/ req'.me \in admins
             THEN res'.status = 200 /\ posts'[req'.id] = Deleted
             ELSE res'.status = 403 /\ posts' = posts
     /\ (req'.op = "DeleteJob" /\ Exists(jobs, req'.id))
          => IF jobs[req'.id].poster = req'.me \/ req'.me \in admins
             THEN res'.status = 200 /\ jobs'[req'.id] = Deleted
             ELSE res'.status = 403 /\ jobs' = jobs
     /\ (req'.op = "PutJob" /\ Exists(jobs, req'.id))
          => IF jobs[req'.id].poster = req'.me
             THEN res'.status \in {200, 500}
             ELSE res'.status = 403 /\ jobs' = jobs
     /\ \A id \in 1..Len(posts) :
          (posts[id] # Deleted /\ posts'[id] = Deleted)
            => /\ req'.op = "DeletePost" /\ req'.id = id
               /\ (posts[id].author = req'.me \/ req'.me \in admins)
     /\ \A id \in 1..Len(jobs) :
          (jobs[id] # Deleted /\ jobs'[id] # jobs[id])
            => \/ /\ req'.op = "DeleteJob" /\ req'.id = id
                  /\ (jobs[id].poster = req'.me \/ req'.me \in admins)
               \/ /\ req'.op = "PutJob" /\ req'.id = id
                  /\ jobs[id].poster = req'.me]_vars

\* C9 witness: an admin who is not the poster was refused an update of a
\* stored job.
C9_Witness ==
  /\ req.op = "PutJob"
  /\ res.status = 403
  /\ Exists(jobs, req.id)
  /\ req.me \in admins
  /\ jobs[req.id].poster # req.me

\* C9 second case reached: an admin who is not the author deleted a post.
C9_WitnessAdminDelete ==
  /\ req.op = "DeletePost"
  /\ res.status = 200
  /\ req.me \in admins
  /\ req.id \in 1..Len(posts)
  /\ posts[req.id] = Deleted

\* C8: the conversation id the pre-save hook gives a message from A to B
\* is the one it gives a message from B to A, is the same for every message
\* of the pair and is kept when a document is saved again; it is the two
\* id strings, the smaller first, joined by '_'; fetch-conversation derives
\* the same id for either participant naming the other.
C8_ConversationIdSymmetric ==
  /\ \A d1, d2 \in hooked :
       {d1.sender, d1.recipient} = {d2.sender, d2.recipient}
         => d1.conversationId = d2.conversationId
  /\ \A d \in hooked :
       LET a == oid[d.sender]
           b == oid[d.recipient]
       IN  /\ d.conversationId \in {a \o <<95>> \o b, b \o <<95>> \o a}
           /\ ~ LessThan(SubSeq(d.conversationId, Len(a) + 2,
                                Len(d.conversationId)),
                         SubSeq(d.conversationId, 1, Len(a)))
  /\ \A d \in hooked :
       (req.op = "GetConversation"
          /\ \/ req.me = d.sender /\ req.userId = oid[d.recipient]
             \/ req.me = d.recipient /\ req.userId = oid[d.sender])
         => fetched = d.conversationId

\* C8 witness: messages in both directions between two accounts went
\* through the hook, the recipient's id string sorts before the sender's in
\* one of them, and that sender fetched the conversation.
C8_Witness ==
  /\ req.op = "GetConversation"
  /\ \E d1, d2 \in hooked :
       /\ d1.sender = d2.recipient
       /\ d1.recipient = d2.sender
       /\ d1.sender # d1.recipient
       /\ LessThan(oid[d1.recipient], oid[d1.sender])
       /\ req.me = d1.sender
       /\ req.userId = oid[d1.recipient]
       /\ fetched = d1.conversationId

\* The entries of account b's received-requests list whose requester is a
ReceivedFrom(coll, b, a) ==
  {k \in 1..Len(ReceivedRequests(coll, b)) :
     coll[ReceivedRequests(coll, b)[k]].requester = a}

\* C11: after a successful connection request from A to B with message m,
\* and no earlier request between them, B's received-requests list holds
\* exactly one entry whose requester is A; it is pending and carries m with
\* the blanks at both ends removed.  A request leaves its recipient's list
\* with the accept or decline that is answered with success, and the list
\* route returns the pending requests addressed to the requester, newest
\* first.
C11_ReceivedRequests ==
  [][/\ (req'.op = "PostRequest" /\ res'.status = 201
            /\ Between(conns, req'.me, req'.userId) = {})
          => /\ Cardinality(ReceivedFrom(conns', req'.userId, req'.me)) = 1
             /\ \A k \in ReceivedFrom(conns', req'.userId, req'.me) :
                  LET doc == conns'[ReceivedRequests(conns', req'.userId)[k]]
                  IN  /\ doc.status = "pending"
                      /\ doc.message = Trim(req'.message)
     /\ (req'.op = "PutRequestAction" /\ res'.status = 200)
          => /\ Includes(ReceivedRequests(conns, req'.me), req'.id)
             /\ ~ Includes(ReceivedRequests(conns', req'.me), req'.id)
     /\ (req'.op = "GetReceived")
          => /\ \A k \in 1..Len(listed') :
                  /\ listed'[k].doc = conns[listed'[k].id]
                  /\ listed'[k].doc.recipient = req'.me
                  /\ listed'[k].doc.status = "pending"
                  /\ \A j \in 1..Len(listed') :
                       j < k => listed'[j].id > listed'[k].id
             /\ \A i \in 1..Len(conns) :
                  (conns[i].recipient = req'.me /\ conns[i].status = "pending")
                    => \E k \in 1..Len(listed') : listed'[k].id = i]_vars

\* C11 as stated: the entry carries the message exactly as it was sent.
C11_MessageAsSent ==
  [][(req'.op = "PostRequest" /\ res'.status = 201
        /\ Between(conns, req'.me, req'.userId) = {})
       => \A k \in ReceivedFrom(conns', req'.userId, req'.me) :
            conns'[ReceivedRequests(conns', req'.userId)[k]].message
              = req'.message]_vars

\* C11 witness: an account fetched its received requests and got exactly
\* the one pending request another account sent with a message.
C11_Witness ==
  /\ req.op = "GetReceived"
  /\ Len(listed) = 1
  /\ listed[1].doc.requester # req.me
  /\ listed[1].doc.recipient = req.me
  /\ listed[1].doc.status = "pending"
  /\ listed[1].doc.message = <<"a">>
  /\ Len(conns) = 2

\* C14: accept and decline act only for the request's recipient and only on
\* a pending request: another requester is answered 403, a request that is
\* no longer pending is answered 400, and both leave the Connection
\* documents, the connection sets and the notifications as they were; the
\* recipient of a pending request is answered with success and the status
\* becomes accepted or declined.  So an accept/decline step changes a status
\* only away from pending, and never back.
C14_OnlyPendingByRecipient ==
  [][(req'.op = "PutRequestAction")
       => /\ (req'.action \in {"accept", "decline"}
                 /\ req'.id \in 1..Len(conns))
               => IF conns[req'.id].recipient # req'.me
                  THEN /\ res'.status = 403
                       /\ UNCHANGED <<conns, connections, notifications>>
                  ELSE IF conns[req'.id].status # "pending"
                  THEN /\ res'.status = 400
                       /\ UNCHANGED <<conns, connections, notifications>>
                  ELSE /\ res'.status = 200
                       /\ conns'[req'.id].status =
                            IF req'.action = "accept" THEN "accepted"
                            ELSE "declined"
          /\ Len(conns') = Len(conns)
          /\ \A i \in 1..Len(conns) :
               conns'[i] # conns[i]
                 => /\ i = req'.id
                    /\ conns[i].status = "pending"
                    /\ conns'[i].status \in {"accepted", "declined"}]_vars

\* C14 witness: the recipient of a request that was accepted before asked
\* to decline it and was answered 400.
C14_Witness ==
  /\ req.op = "PutRequestAction"
  /\ req.action = "decline"
  /\ res.status = 400
  /\ req.id \in 1..Len(conns)
  /\ conns[req.id].recipient = req.me
  /\ conns[req.id].status = "accepted"

\* C14 second case reached: the requester of a pending request asked to
\* accept it and was answered 403.
C14_WitnessNotRecipient ==
  /\ req.op = "PutRequestAction"
  /\ req.action = "accept"
  /\ res.status = 403
  /\ req.id \in 1..Len(conns)
  /\ conns[req.id].requester = req.me
  /\ conns[req.id].status = "pending"

\* C15: after remove-connection by A naming B neither account lists the
\* other and no Connection document between A and B is accepted; no
\* document is deleted, and the only change to a document is from accepted
\* to declined.  (A step that leaves the requests in progress as they are
\* and has the remove request as the one served last is a remove step.)
C15_RemoveIsComplete ==
  [][(req'.op = "DeleteConnection" /\ req'.userId \in Users
        /\ procs' = procs)
       => /\ res'.status = 200
          /\ ~ Includes(connections'[req'.me], req'.userId)
          /\ ~ Includes(connections'[req'.userId], req'.me)
          /\ Len(conns') = Len(conns)
          /\ \A i \in 1..Len(conns) :
               conns'[i] # conns[i]
                 => /\ i \in Between(conns, req'.me, req'.userId)
                    /\ conns[i].status = "accepted"
                    /\ conns'[i] = [conns[i] EXCEPT !.status = "declined"]
          /\ \A i \in Between(conns', req'.me, req'.userId) :
               conns'[i].status # "accepted"]_vars

\* C15 case reached: a connection was removed while two accepted documents
\* between the two accounts were stored, and one of them is still accepted.
C15_WitnessStillAccepted ==
  /\ req.op = "DeleteConnection"
  /\ req.userId \in Users
  /\ \E i, j \in Between(conns, req.me, req.userId) :
       /\ conns[i].status = "declined"
       /\ conns[j].status = "accepted"

\* C12: right after create-post by account A answered 201, the new post is
\* stored with author A and a visibility the feed admits, it is the first
\* entry of A's feed and so on the page a fetch with the default page and
\* limit returns; every feed page lists newer posts before older ones.
C12_CreatedPostInFeed ==
  [][/\ (req'.op = "CreatePost" /\ res'.status = 201)
          => LET id == Len(posts')
                 feed == FeedIds(posts', req'.me)
             IN  /\ Len(posts') = Len(posts) + 1
                 /\ posts'[id].author = req'.me
                 /\ posts'[id].visibility \in {"public", "connections"}
                 /\ feed # <<>> /\ feed[1] = id
                 /\ Includes(Page(feed, DefaultPage, DefaultLimit), id)
     /\ (req'.op = "GetFeed")
          => \A j, k \in 1..Len(listed') :
               j < k => listed'[j].id > listed'[k].id]_vars

\* C12 witness: an account without connections created a post while an
\* older post was in its feed, fetched the feed with the default page and
\* limit and got the new post first.
C12_Witness ==
  /\ req.op = "GetFeed"
  /\ req.page = DefaultPage /\ req.limit = DefaultLimit
  /\ connections[req.me] = <<>>
  /\ Len(posts) = 2
  /\ Len(listed) = 2
  /\ listed[1].id = 2
  /\ listed[1].doc.author = req.me
  /\ listed[1].doc.v = 0

\* The posts the feed of account r is to consist of
FeedCandidates(r) ==
  {i \in 1..Len(posts) :
     /\ posts[i] # Deleted
     /\ posts[i].visibility \in {"public", "connections"}
     /\ \/ posts[i].author = r
        \/ posts[i].author \in Range(connections[r])
        \/ posts[i].author \in Range(following[r])
        \/ posts[i].engagementScore >= 10}

\* C16: for every account and limit, the pages 1..totalPages of the feed
\* together hold exactly the posts that are public or connections-only and
\* are authored by the account, one of its connections or one it follows,
\* or have engagementScore >= 10, each once; no page of any feed holds a
\* private post; and a feed request returns the documents of its page.
C16_FeedContents ==
  [][/\ \A r \in Users, limit \in {1, 2, DefaultLimit} :
          LET feed == FeedIds(posts, r)
              pages == 1..TotalPages(Len(feed), limit)
          IN  /\ UNION {Range(Page(feed, pg, limit)) : pg \in pages}
                   = FeedCandidates(r)
              /\ \A pg, ph \in pages :
                   pg # ph => Range(Page(feed, pg, limit))
                                \cap Range(Page(feed, ph, limit)) = {}
              /\ \A pg \in 1..(MaxPage + 1) :
                   \A i \in Range(Page(feed, pg, limit)) :
                     posts[i].visibility # "private"
     /\ (req'.op = "GetFeed")
          => /\ \A k \in 1..Len(listed') :
                  /\ listed'[k].id \in FeedCandidates(req'.me)
                  /\ listed'[k].doc = posts[listed'[k].id]
                  /\ listed'[k].doc.visibility # "private"
             /\ Len(listed') <= req'.limit
             /\ (req'.limit >= Cardinality(FeedCandidates(req'.me))
                   /\ req'.page = 1)
                  => {listed'[k].id : k \in 1..Len(listed')}
                       = FeedCandidates(req'.me)]_vars

\* C16 witness: an account fetched its feed while its own private post and
\* a post of another account were stored, and got only the other post.
C16_Witness ==
  /\ req.op = "GetFeed"
  /\ Len(posts) = 2
  /\ posts[1] # Deleted /\ posts[2] # Deleted
  /\ posts[1].author = req.me
  /\ posts[1].visibility = "private"
  /\ posts[2].author # req.me
  /\ Len(listed) = 1
  /\ listed[1].id = 2

\* C16 second case reached: the feed returned a connections-only post of
\* an account that the requester is not connected with and does not follow,
\* because the post is trending.
C16_WitnessTrending ==
  /\ req.op = "GetFeed"
  /\ \E k \in 1..Len(listed) :
       /\ listed[k].doc.visibility = "connections"
       /\ listed[k].doc.engagementScore = 10
       /\ listed[k].doc.author # req.me
       /\ ~ Includes(connections[req.me], listed[k].doc.author)
       /\ ~ Includes(following[req.me], listed[k].doc.author)

\* C13: a send event makes the server emit receive_message, with the
\* payload, to exactly the socket id the registry holds for the recipient
\* id, and emit nothing when the registry has no entry for it; it leaves the
\* registry, the sockets and the Message collection as they were.
C13_SendToRegistered ==
  [][(req'.op = "send_message")
       => /\ IF \E i \in 1..Len(activeUsers) :
                    activeUsers[i].key = req'.receiverId
             THEN /\ Len(emitted') = 1
                  /\ emitted'[1].event = "receive_message"
                  /\ emitted'[1].message = req'.message
                  /\ \E i \in 1..Len(activeUsers) :
                       /\ activeUsers[i].key = req'.receiverId
                       /\ activeUsers[i].value = emitted'[1].to
             ELSE emitted' = <<>>
          /\ \A i, j \in 1..Len(activeUsers) :
               activeUsers[i].key = activeUsers[j].key => i = j
          /\ UNCHANGED <<activeUsers, sockets, messages>>]_vars

\* C13 witness: with two accounts registered on different sockets, a send
\* event naming the one registered second was emitted to its socket, which
\* is not the sender's.
C13_Witness ==
  /\ req.op = "send_message"
  /\ Len(activeUsers) = 2
  /\ activeUsers[2].key = req.receiverId
  /\ activeUsers[1].value # activeUsers[2].value
  /\ Len(emitted) = 1
  /\ emitted[1].to = activeUsers[2].value
  /\ emitted[1].to # req.socket

\* C13 second case reached: a send event named an account that has no
\* entry while another account has one, and nothing was emitted.
C13_WitnessNoEntry ==
  /\ req.op = "send_message"
  /\ activeUsers # <<>>
  /\ \A i \in 1..Len(activeUsers) : activeUsers[i].key # req.receiverId
  /\ emitted = <<>>

\* C17: in every reachable state the application list of a job holds at
\* most one application per applicant, also when apply requests interleave.
C17_OneApplicationPerApplicant ==
  \A id \in 1..Len(jobs), u \in Users :
    jobs[id] # Deleted =>
      Cardinality({i \in 1..Len(jobs[id].applications) :
                     jobs[id].applications[i].applicant = u}) <= 1

\* C17 case reached: two apply requests of one account were both answered
\* with success and the job holds two applications of that account.
C17_WitnessTwice ==
  /\ Quiescent
  /\ req.op = "ApplyJob" /\ res.status = 200
  /\ Len(notifications) = 2
  /\ \A i \in 1..2 : /\ notifications[i].type = "job_match"
                     /\ notifications[i].sender = req.me
                     /\ notifications[i].relatedJob = req.id
  /\ Exists(jobs, req.id)
  /\ Len(jobs[req.id].applications) = 2
  /\ \A i \in 1..2 : jobs[req.id].applications[i].applicant = req.me

\* C18: whenever no request is in progress, every stored post has
\* engagementScore = likes.length + comments.length + 2 * shares.length,
\* also after like and comment requests on the post interleaved.
C18_ScoreWhenQuiescent ==
  Quiescent =>
    \A id \in 1..Len(posts) :
      posts[id] # Deleted =>
        posts[id].engagementScore =
          Len(posts[id].likes) + Len(posts[id].comments)
            + 2 * Len(posts[id].shares)

\* C18 case reached: a like and a comment by different accounts were both
\* stored and answered, and the stored score counts only one of them.
C18_WitnessStale ==
  /\ Quiescent
  /\ \E id \in 1..Len(posts) :
       /\ posts[id] # Deleted
       /\ Len(posts[id].likes) = 1
       /\ Len(posts[id].comments) = 1
       /\ posts[id].comments[1].user # posts[id].likes[1]
       /\ posts[id].shares = <<>>
       /\ posts[id].engagementScore = 1

\* C19: send-message from A to an existing account B with non-empty
\* content is answered 201 and appends exactly one Message, with sender A,
\* recipient B, no read timestamp and the conversation id of the pair; and
\* a fetch-conversation by either of the two, naming the other, returns
\* every stored message of the pair.
C19_SendStoresMessage ==
  [][/\ (req'.op = "SendMessage" /\ req'.recipient \in Users
            /\ req'.content # <<>>)
          => /\ res'.status = 201
             /\ Len(messages') = Len(messages) + 1
             /\ SubSeq(messages', 1, Len(messages)) = messages
             /\ LET m == messages'[Len(messages')]
                IN  /\ m.sender = req'.me
                    /\ m.recipient = req'.recipient
                    /\ m.content = req'.content
                    /\ m.readAt = NoDate
                    /\ m.conversationId =
                         Join(Sort(oid[req'.me], oid[req'.recipient]))
     /\ (req'.op = "GetConversation")
          => \A i \in 1..Len(messages) :
               (\/ /\ messages[i].sender = req'.me
                   /\ oid[messages[i].recipient] = req'.userId
                \/ /\ messages[i].recipient = req'.me
                   /\ oid[messages[i].sender] = req'.userId)
                 => \E k \in 1..Len(listed') : listed'[k].id = i]_vars

\* C19 case reached: a send-message request with an existing recipient and
\* non-empty content was answered 500 and no Message is stored.
C19_WitnessRefused ==
  /\ req.op = "SendMessage"
  /\ req.recipient \in Users
  /\ req.recipient # req.me
  /\ req.content # <<>>
  /\ res.status = 500
  /\ messages = <<>>

\* The request of this step passes every check of its handler and its own
\* write is stored, for the six routes that notify another account
NotifyingStep ==
  \/ /\ req'.op = "PostLike"
     /\ Exists(posts, req'.id)
     /\ ~ Includes(posts[req'.id].likes, req'.me)
     /\ posts[req'.id].author # req'.me
     /\ Count(posts'[req'.id].likes, req'.me) = 1
  \/ /\ req'.op = "PostComment"
     /\ req'.content # <<>>
     /\ Exists(posts, req'.id)
     /\ posts[req'.id].author # req'.me
     /\ Len(posts'[req'.id].comments) = Len(posts[req'.id].comments) + 1
  \/ /\ req'.op = "PostShare"
     /\ Exists(posts, req'.id)
     /\ \A i \in 1..Len(posts[req'.id].shares) :
          posts[req'.id].shares[i].user # req'.me
     /\ posts[req'.id].author # req'.me
     /\ Len(posts'[req'.id].shares) = Len(posts[req'.id].shares) + 1
  \/ /\ req'.op = "ApplyJob"
     /\ Exists(jobs, req'.id)
     /\ jobs[req'.id].isActive
     /\ \A i \in 1..Len(jobs[req'.id].applications) :
          jobs[req'.id].applications[i].applicant # req'.me
     /\ Len(jobs'[req'.id].applications) = 1 + Len(jobs[req'.id].applications)
  \/ /\ req'.op = "PostRequest"
     /\ req'.userId \in Users \ {req'.me}
     /\ Between(conns, req'.me, req'.userId) = {}
     /\ Len(conns') = Len(conns) + 1
  \/ /\ req'.op = "PutRequestAction"
     /\ req'.action = "accept"
     /\ req'.id \in 1..Len(conns)
     /\ conns[req'.id].recipient = req'.me
     /\ conns[req'.id].status = "pending"
     /\ conns'[req'.id].status = "accepted"
     /\ Includes(connections'[req'.me], conns[req'.id].requester)
     /\ Includes(connections'[conns[req'.id].requester], req'.me)

\* The request of this step passes every check of its handler
PassesChecks ==
  \/ /\ req'.op = "PostLike"
     /\ Exists(posts, req'.id)
     /\ ~ Includes(posts[req'.id].likes, req'.me)
     /\ posts[req'.id].author # req'.me
  \/ /\ req'.op = "PostComment"
     /\ req'.content # <<>>
     /\ Exists(posts, req'.id)
     /\ posts[req'.id].author # req'.me
  \/ /\ req'.op = "PostShare"
     /\ Exists(posts, req'.id)
     /\ \A i \in 1..Len(posts[req'.id].shares) :
          posts[req'.id].shares[i].user # req'.me
     /\ posts[req'.id].author # req'.me
  \/ /\ req'.op = "ApplyJob"
     /\ Exists(jobs, req'.id)
     /\ jobs[req'.id].isActive
     /\ \A i \in 1..Len(jobs[req'.id].applications) :
          jobs[req'.id].applications[i].applicant # req'.me
  \/ /\ req'.op = "PostRequest"
     /\ req'.userId \in Users \ {req'.me}
     /\ Between(conns, req'.me, req'.userId) = {}
  \/ /\ req'.op = "PutRequestAction"
     /\ req'.action = "accept"
     /\ req'.id \in 1..Len(conns)
     /\ conns[req'.id].recipient = req'.me
     /\ conns[req'.id].status = "pending"

\* C20: when the Notification write that follows the stored write of a
\* like, comment, share, job application, connection request or accept
\* fails, that write stays stored, no notification is added and the request
\* is answered 500; when it does not fail the request is answered with
\* success and one notification is added.
C20_PrimaryKeptOnNotifyFailure ==
  [][(PassesChecks /\ notifyFails' = notifyFails)
       => /\ NotifyingStep
          /\ IF notifyFails
             THEN /\ res'.status = 500
                  /\ notifications' = notifications
             ELSE /\ res'.status \in {200, 201}
                  /\ Len(notifications') = Len(notifications) + 1]_vars

\* C20 witness: an application was stored while the Notification
\* collection refused writes; the request was answered 500, the job holds
\* the application and no notification exists.
C20_Witness ==
  /\ notifyFails
  /\ req.op = "ApplyJob"
  /\ res.status = 500
  /\ Exists(jobs, req.id)
  /\ jobs[req.id].isActive
  /\ \E i \in 1..Len(jobs[req.id].applications) :
       jobs[req.id].applications[i].applicant = req.me
  /\ notifications = <<>>

\* C20 second case reached: a like was stored and answered 500.
C20_WitnessLike ==
  /\ notifyFails
  /\ req.op = "PostLike"
  /\ res.status = 500
  /\ Exists(posts, req.id)
  /\ posts[req.id].author # req.me
  /\ Includes(posts[req.id].likes, req.me)
  /\ notifications = <<>>

\* C21: DELETE /clear-all, dispatched by the notifications router, is
\* answered with success and deletes every notification whose recipient is
\* the requester, leaving the notifications of every other recipient as
\* they were.
C21_ClearAllDeletesOwn ==
  [][(req'.op = "NotificationsDelete" /\ req'.path = <<Lit("clear-all")>>)
       => /\ res'.status = 200
          /\ Len(notifications') = Len(notifications)
          /\ \A i \in 1..Len(notifications) :
               IF Exists(notifications, i)
                  /\ notifications[i].recipient = req'.me
               THEN ~ Exists(notifications', i)
               ELSE notifications'[i] = notifications[i]]_vars

\* C21 case reached: a clear-all request by an account that has a
\* notification ran the single-delete handler, was answered 500 and the
\* notification is still stored.
C21_WitnessShadowed ==
  /\ req.op = "NotificationsDelete"
  /\ req.path = <<Lit("clear-all")>>
  /\ req.handler = "DeleteNotification"
  /\ res.status = 500
  /\ \E i \in 1..Len(notifications) :
       Exists(notifications, i) /\ notifications[i].recipient = req.me

\* C22: GET /my/applications by account R, dispatched by the jobs router,
\* is answered with success and returns exactly one entry per job that
\* holds an application by R, each entry carrying an application of R.
C22_MyApplicationsListed ==
  [][(req'.op = "JobsGet"
        /\ req'.path = <<Lit("my"), Lit("applications")>>)
       => /\ res'.status = 200
          /\ \A j \in 1..Len(jobs) :
               Cardinality({k \in 1..Len(listed') : listed'[k].job = j})
                 = IF Exists(jobs, j) /\ ExistingApplication(jobs[j], req'.me)
                   THEN 1 ELSE 0
          /\ \A k \in 1..Len(listed') :
               /\ listed'[k].job \in 1..Len(jobs)
               /\ listed'[k].application.applicant = req'.me]_vars

\* C22 case reached: a list-my-applications request by an account that
\* applied to a job ran the list-applications handler with id 'my' and was
\* answered 500 with no entry.
C22_WitnessShadowed ==
  /\ req.op = "JobsGet"
  /\ req.path = <<Lit("my"), Lit("applications")>>
  /\ req.handler = "GetApplications"
  /\ res.status = 500
  /\ listed = <<>>
  /\ \E j \in 1..Len(jobs) :
       Exists(jobs, j) /\ ExistingApplication(jobs[j], req.me)

\* C23: update-application-status succeeds only for the job's poster and a
\* status of the enum, and then the application takes the requested status
\* whatever its current one; an invalid status is answered 400, a
\* non-poster (an admin too) 403, and both leave the jobs unchanged.
C23_StatusByPosterOnly ==
  [][(req'.op = "PutApplication")
       => LET r == req'
              valid == r.status \in ValidStatuses
              found == Exists(jobs, r.jobId)
          IN  /\ (res'.status = 200)
                   => /\ valid /\ found
                      /\ jobs[r.jobId].poster = r.me
                      /\ r.applicationId
                           \in 1..Len(jobs[r.jobId].applications)
              /\ (/\ valid /\ found
                  /\ jobs[r.jobId].poster = r.me
                  /\ r.applicationId \in 1..Len(jobs[r.jobId].applications))
                   => /\ res'.status = 200
                      /\ jobs'[r.jobId].applications[r.applicationId].status
                           = r.status
                      /\ jobs' = [jobs EXCEPT
                           ![r.jobId].applications[r.applicationId].status
                             = r.status]
              /\ ~ valid => (res'.status = 400 /\ jobs' = jobs)
              /\ (valid /\ found /\ jobs[r.jobId].poster # r.me)
                   => (res'.status = 403 /\ jobs' = jobs)]_vars

\* C23 witness: the poster set an application to hired.
C23_Witness ==
  /\ req.op = "PutApplication"
  /\ req.status = "hired"
  /\ res.status = 200
  /\ jobs[req.jobId].poster = req.me
  /\ jobs[req.jobId].applications[req.applicationId].status = "hired"

\* C23 witness: an admin who is not the poster asked for a valid status of
\* an existing application and was answered 403.
C23_WitnessAdmin ==
  /\ req.op = "PutApplication"
  /\ req.me \in admins
  /\ req.status \in ValidStatuses
  /\ Exists(jobs, req.jobId)
  /\ jobs[req.jobId].poster # req.me
  /\ req.applicationId \in 1..Len(jobs[req.jobId].applications)
  /\ res.status = 403

\* C24: in every reachable state no application in a job's application
\* list has the job's poster as its applicant.
C24_NoApplicationByPoster ==
  \A j \in 1..Len(jobs) :
    Exists(jobs, j) =>
      \A i \in 1..Len(jobs[j].applications) :
        jobs[j].applications[i].applicant # jobs[j].poster

\* C24 case reached: an apply request by the poster of the job was answered
\* with success and the job holds the poster's application.
C24_WitnessOwnJob ==
  /\ req.op = "ApplyJob"
  /\ res.status = 200
  /\ Exists(jobs, req.id)
  /\ jobs[req.id].poster = req.me
  /\ ExistingApplication(jobs[req.id], req.me)

\* The conversation a fetch-conversation or mark-read request names
Opened(r) ==
  IF r.op = "GetConversation" THEN ConversationId(r.me, r.userId)
  ELSE r.conversationId

\* C25: fetch-conversation and mark-read by account R set the read
\* timestamp on exactly the messages of that conversation whose recipient is
\* R and whose read timestamp is unset, and change nothing else of any
\* message; no step changes a read timestamp that is set.
C25_MarkReadFrame ==
  [][/\ (req'.op \in {"GetConversation", "PutRead"})
          => /\ Len(messages') = Len(messages)
             /\ \A i \in 1..Len(messages) :
                  IF /\ messages[i].conversationId = Opened(req')
                     /\ messages[i].recipient = req'.me
                     /\ messages[i].readAt = NoDate
                  THEN /\ messages'[i].readAt = clock
                       /\ messages'[i].readAt # NoDate
                       /\ messages'[i]
                            = [messages[i] EXCEPT !.readAt = clock]
                  ELSE messages'[i] = messages[i]
     /\ \A i \in 1..Len(messages) :
          messages[i].readAt # NoDate
            => /\ i \in 1..Len(messages')
               /\ messages'[i].readAt = messages[i].readAt]_vars

\* C25 witness: after time has passed, u1 opened its conversation with u2,
\* which holds a message to u1 read earlier, a message to u1 read now and a
\* message u1 sent that is still unread.
C25_Witness ==
  /\ req.op \in {"GetConversation", "PutRead"}
  /\ req.me = "u1"
  /\ clock > 1
  /\ Opened(req) = Join(Sort(IdToString("u1"), IdToString("u2")))
  /\ \E i \in 1..Len(messages) :
       /\ messages[i].recipient = "u1" /\ messages[i].sender = "u2"
       /\ messages[i].readAt = clock
  /\ \E i \in 1..Len(messages) :
       /\ messages[i].sender = "u1" /\ messages[i].recipient = "u2"
       /\ messages[i].readAt = NoDate

\* C25 witness: a message to u1 in its conversation with u3 stays unread
\* when u1 marks its conversation with u2 read.
C25_WitnessOther ==
  /\ req.op = "PutRead"
  /\ req.me = "u1"
  /\ req.conversationId = Join(Sort(IdToString("u1"), IdToString("u2")))
  /\ \E i \in 1..Len(messages) :
       /\ messages[i].recipient = "u1" /\ messages[i].sender = "u2"
       /\ messages[i].readAt = clock
  /\ \E i \in 1..Len(messages) :
       /\ messages[i].recipient = "u1" /\ messages[i].sender = "u3"
       /\ messages[i].readAt = NoDate

\* The connected sockets that joined as account u
JoinedAs(u) ==
  {s \in 1..Len(sockets) : sockets[s].connected /\ u \in sockets[s].rooms}

\* C26: the registry has an entry for account u exactly when some connected
\* socket has joined as u, and the entry holds the id of such a socket.
C26_RegistryMatchesSockets ==
  \A u \in Users :
    /\ MapHas(activeUsers, u) <=> JoinedAs(u) # {}
    /\ MapHas(activeUsers, u) => MapGet(activeUsers, u) \in JoinedAs(u)

\* C26 case reached: a socket that joined as two accounts disconnected and
\* the registry still holds an entry with its id.
C26_WitnessStale ==
  /\ req.op = "disconnect"
  /\ \E i \in 1..Len(activeUsers) : activeUsers[i].value = req.socket

\* C26 case reached: after a disconnect the registry has no entry for an
\* account that a connected socket joined as.
C26_WitnessDropped ==
  /\ req.op = "disconnect"
  /\ \E u \in Users : JoinedAs(u) # {} /\ ~ MapHas(activeUsers, u)

\* Account b is in the connections of account a
Connected(a, b) == Includes(connections[a], b)

\* C27: with no request in progress, for all distinct accounts A and B, B
\* is in A.connections exactly when A is in B.connections, and exactly when
\* some Connection document between A and B has status accepted; also when
\* the steps of accept, decline and remove handlers interleave.
C27_ConnectedIffAccepted ==
  Quiescent =>
    \A a, b \in Users :
      a # b =>
        /\ Connected(a, b) <=> Connected(b, a)
        /\ Connected(a, b)
             <=> \E i \in Between(conns, a, b) : conns[i].status = "accepted"

\* C27 case reached: with no request in progress u1 and u2 list each other
\* while the only request between them is declined.
C27_WitnessDeclinedButConnected ==
  /\ Quiescent
  /\ Connected("u1", "u2") /\ Connected("u2", "u1")
  /\ \A i \in Between(conns, "u1", "u2") : conns[i].status = "declined"

\* C27 case reached: with no request in progress one of u1 and u2 lists
\* the other and is not listed by it.
C27_WitnessOneSided ==
  /\ Quiescent
  /\ Connected("u1", "u2") # Connected("u2", "u1")

\* Some Connection document between a and b has status declined
DeclinedBetween(coll, a, b) ==
  \E i \in Between(coll, a, b) : coll[i].status = "declined"

\* C28: once a Connection document between A and B is declined, neither
\* account is in the other's connections from then on: documents are never
\* deleted and never return to pending, a declined document stays declined,
\* and a request between a pair that has a document is answered 400.
C28_DeclinedStaysApart ==
  [][/\ \A a, b \in Users :
          (a # b /\ DeclinedBetween(conns, a, b))
            => /\ DeclinedBetween(conns', a, b)
               /\ ~ Includes(connections'[a], b)
               /\ ~ Includes(connections'[b], a)
     /\ Len(conns') >= Len(conns)
     /\ \A i \in 1..Len(conns) :
          /\ conns'[i].requester = conns[i].requester
          /\ conns'[i].recipient = conns[i].recipient
          /\ conns[i].status # "pending" => conns'[i].status # "pending"
     /\ (/\ req'.op = "PostRequest"
         /\ procs' = procs
         /\ req'.userId \in Users
         /\ Between(conns, req'.me, req'.userId) # {})
          => (res'.status = 400 /\ conns' = conns)]_vars

\* C28 case reached: u1 and u2 list each other, an accept was the last
\* request served, and a declined document between them is stored.
C28_WitnessReconnected ==
  /\ Quiescent
  /\ req.op = "PutRequestAction"
  /\ res.status = 200
  /\ DeclinedBetween(conns, "u1", "u2")
  /\ Connected("u1", "u2") /\ Connected("u2", "u1")

\* C29: with every follow toggle completed, A is in B.followers exactly
\* when B is in A.following, no account follows itself and no id is twice
\* in a list.
C29_FollowSymmetric ==
  Quiescent =>
    \A a, b \in Users :
      /\ Includes(followers[b], a) <=> Includes(following[a], b)
      /\ ~ Includes(followers[a], a)
      /\ ~ Includes(following[a], a)
      /\ Count(followers[b], a) <= 1
      /\ Count(following[a], b) <= 1

\* The frame and the self check of the follow toggle: a toggle by A on B
\* changes only A.following and B.followers, and a toggle on oneself is
\* answered 400 and changes nothing.
C29_ToggleFrame ==
  [][(req'.op = "ToggleFollow" /\ procs' = procs)
       => /\ \A u \in Users :
               /\ u # req'.me => following'[u] = following[u]
               /\ u # req'.id => followers'[u] = followers[u]
          /\ (req'.id = req'.me)
               => /\ res'.status = 400
                  /\ UNCHANGED <<following, followers>>]_vars

\* C29 case reached: with no request in progress u2 has the follower u1
\* and u1 does not follow u2.
C29_WitnessOneSided ==
  /\ Quiescent
  /\ Includes(followers["u2"], "u1")
  /\ ~ Includes(following["u1"], "u2")

\* C30: a profile update changes no other account's document and leaves
\* the requester's email, passwordHash, isAdmin flag and connections as
\* they were, whatever the body holds.
C30_ProfileUpdateFrame ==
  [][(req'.op = "PutProfile")
       => /\ \A u \in Users \ {req'.me} :
               /\ profiles'[u] = profiles[u]
               /\ connections'[u] = connections[u]
               /\ following'[u] = following[u]
               /\ followers'[u] = followers[u]
               /\ (u \in admins') <=> (u \in admins)
          /\ profiles'[req'.me].email = profiles[req'.me].email
          /\ profiles'[req'.me].passwordHash
               = profiles[req'.me].passwordHash
          /\ (req'.me \in admins') <=> (req'.me \in admins)
          /\ connections'[req'.me] = connections[req'.me]]_vars

\* C30 case reached: a profile update with isAdmin inside $set was answered
\* with success by an account that is now an admin and did not start as one.
C30_WitnessAdmin ==
  /\ req.op = "PutProfile"
  /\ "$set" \in DOMAIN req.body
  /\ res.status = 200
  /\ req.me # "u3"
  /\ req.me \in admins

\* C3: in every reachable state there is at most one Connection document
\* per unordered pair of accounts, also when the requests interleave.
C3_OnePerPair ==
  \A a, b \in Users : Cardinality(Between(conns, a, b)) <= 1

\* C5: when no like request is in progress, an account is in a post's like
\* array once if it was answered an odd number of successful toggles and
\* not at all if an even number: the array is the one some sequential order
\* of the answered requests leaves, without duplicates or lost toggles.
C5_LikesConverge ==
  Quiescent =>
    \A id \in 1..Len(posts), u \in Users :
      posts[id] # Deleted =>
        Count(posts[id].likes, u) =
          Cardinality({i \in 1..Len(answered) :
                         answered[i].id = id /\ answered[i].me = u}) % 2

====
